---- MODULE Spec2Model ----
(***************************************************************************)
(* A model of go-dbmanager's PostgreSQL reconciliation engine: CreateUser, *)
(* CreateDatabase, GrantPermissions and Manage, together with the part of  *)
(* the PostgreSQL catalog the engine reads and writes.                     *)
(*                                                                         *)
(* The engine is sequential: every exported operation is one action.  An   *)
(* operation is computed by threading a machine state                      *)
(*     [cat |-> catalog, log |-> statements sent so far, err |-> error]    *)
(* through operators named after the Go functions they translate.  The log *)
(* holds every statement and catalog query the operation sent, in order.   *)
(***************************************************************************)
EXTENDS Integers, Sequences, FiniteSets, TLC

VARIABLES
    cat,    \* the server's catalog
    last    \* the last operation: its arguments, the catalog before it, its log and result

vars == <<cat, last>>

(***************************************************************************)
(* Names.                                                                  *)
(***************************************************************************)

\* The operating principal (m.connection.Username) and the administrative database.
AdminUser == "postgres"
AdminDatabase == "postgres"

\* Role names the declarations draw from.  "Dev" has an upper-case letter.
RoleNames == {"app", "Dev", "ops"}

\* A name with a dash and an underscore in it.
DashedName == "my-role_1"

AllRoles == RoleNames \cup {AdminUser, "dev", "ghost", "", DashedName}

\* Database names the declarations draw from.  "AppDb" has upper-case letters.
DbNames == {"appdb", "AppDb"}
AllDbs == DbNames \cup {AdminDatabase, "opsdb"}

\* Passwords the declarations draw from.  The second has two single quotes
\* next to each other in it.
Passwords == {"p1", "p''2"}

\* What the server makes of a value interpolated between single quotes, as
\* '%s' does: inside a string constant two quotes next to each other stand
\* for one quote, and every other character of these values for itself.
StringLiteral(text) ==
    CASE text = "p''2" -> "p'2"
      [] OTHER -> text

\* strings.ToLower on the names of the model.
ToLower(s) ==
    CASE s = "Dev" -> "dev"
      [] s = "AppDb" -> "appdb"
      [] OTHER -> s       \* no upper-case letter in any other name

\* What the server makes of an identifier.  QuoteIdentifier puts the name
\* between double quotes (doubling any quote in it, cutting it at a zero
\* byte) and the server reads the quoted text back case-sensitively, so a
\* name with neither in it, as all names here, denotes itself.  An
\* identifier interpolated without quotes is folded to lower case.
QuoteIdentifier(name) == name
Unquoted(name) == ToLower(name)

(***************************************************************************)
(* Declarations (manager.go).                                              *)
(***************************************************************************)

UserOptions(login, super, createdb, createrole, inherit, repl, bypass) ==
    [Login |-> login, Superuser |-> super, CreateDatabase |-> createdb,
     CreateRole |-> createrole, Inherit |-> inherit, Replication |-> repl,
     BypassRLS |-> bypass]

NoOptions == UserOptions(FALSE, FALSE, FALSE, FALSE, FALSE, FALSE, FALSE)

AllOptions ==
    { UserOptions(l, s, d, r, i, p, b) :
        l \in BOOLEAN, s \in BOOLEAN, d \in BOOLEAN, r \in BOOLEAN,
        i \in BOOLEAN, p \in BOOLEAN, b \in BOOLEAN }

User(name, password, options, grants, roles) ==
    [Name |-> name, Password |-> password, Options |-> options,
     Grants |-> grants, Roles |-> roles]

Grant(database, schema, table, sequence, parameter, privileges, withGrant) ==
    [Database |-> database, Schema |-> schema, Table |-> table,
     Sequence |-> sequence, Parameter |-> parameter,
     Privileges |-> privileges, WithGrant |-> withGrant]

DefaultPrivilege(role, schema, grant, on, to, withGrant) ==
    [Role |-> role, Schema |-> schema, Grant |-> grant, On |-> on, To |-> to,
     WithGrant |-> withGrant]

Database(name, owner, defaultPrivileges) ==
    [Name |-> name, Owner |-> owner, DefaultPrivileges |-> defaultPrivileges]

(***************************************************************************)
(* Statements and queries, as the log records them.                        *)
(*   k  kind            a, b  names          c  clauses or privileges      *)
(*   b2 a literal (the password)                                           *)
(*   o  object          w     WITH GRANT OPTION      ok  the server's answer *)
(***************************************************************************)

Obj(class, db, schema, name) ==
    [class |-> class, db |-> db, schema |-> schema, name |-> name]

NoObj == Obj("", "", "", "")

Stmt(k, a, b, c, o, w) ==
    [k |-> k, a |-> a, b |-> b, b2 |-> "", c |-> c, o |-> o, w |-> w, ok |-> TRUE]

\* The statement kinds that change the catalog, and the queries that read it.
StatementKinds ==
    {"CREATE_ROLE", "ALTER_ROLE", "SET_PASSWORD", "CREATE_DATABASE",
     "ALTER_DATABASE_OWNER", "GRANT_ROLE", "REVOKE_ROLE", "GRANT",
     "ALTER_DEFAULT_PRIVILEGES"}

Range(s) == { s[i] : i \in 1..Len(s) }

(***************************************************************************)
(* The catalog.                                                            *)
(*   roles   existing role names                 opt   pg_roles attributes *)
(*   pw      credentials                         dbs   pg_database.datname *)
(*   owner   pg_database.datdba                  member  pg_auth_members   *)
(*   privs   privileges held: [u, o, p]          gopt  those held with     *)
(*   defp    default privileges                        grant option        *)
(***************************************************************************)

Catalog(roles, opt, pw, dbs, owner, member, privs, gopt, defp) ==
    [roles |-> roles, opt |-> opt, pw |-> pw, dbs |-> dbs, owner |-> owner,
     member |-> member, privs |-> privs, gopt |-> gopt, defp |-> defp]

\* The attributes of the bootstrap superuser.
AdminOptions == UserOptions(TRUE, TRUE, TRUE, TRUE, TRUE, TRUE, TRUE)

\* A fresh server: the bootstrap superuser and the administrative database.
FreshCatalog ==
    Catalog({AdminUser},
            [r \in AllRoles |-> IF r = AdminUser THEN AdminOptions ELSE NoOptions],
            [r \in AllRoles |-> ""],
            {AdminDatabase},
            [d \in AllDbs |-> IF d = AdminDatabase THEN AdminUser ELSE ""],
            {}, {}, {}, {})

\* The machine state an operation starts from, and its steps.
Start(c) == [cat |-> c, log |-> <<>>, err |-> ""]
Fail(m, e) == [m EXCEPT !.err = e]
Logged(m, s) == [m EXCEPT !.log = Append(m.log, s)]

\* The entry of an exported operation, as Manage calls it.
Called(m, operation, name) == Logged(m, Stmt("CALL", operation, name, <<>>, NoObj, FALSE))

\* Sequencing: the result `e` of one step, computed once, handed to the rest F.
Bind(e, F(_)) == CHOOSE r \in { F(v) : v \in {e} } : TRUE

(***************************************************************************)
(* The server: which statements it accepts and what they do to the catalog *)
(* (PostgreSQL's documented behaviour for a superuser session).            *)
(***************************************************************************)

Schemas == {"public"}
Tables == {"t1"}
Sequences_ == {"s1"}
Parameters == {"session_replication_role"}

\* The privileges of each object class; GRANT ALL confers all of them.
ClassPrivileges(class) ==
    CASE class = "database" -> {"CREATE", "CONNECT", "TEMPORARY"}
      [] class = "schema" -> {"CREATE", "USAGE"}
      [] class = "table" ->
            {"SELECT", "INSERT", "UPDATE", "DELETE", "TRUNCATE", "REFERENCES", "TRIGGER"}
      [] class = "sequence" -> {"USAGE", "SELECT", "UPDATE"}
      [] class = "parameter" -> {"SET", "ALTER SYSTEM"}
      [] OTHER -> {}

\* TEMP is another spelling of TEMPORARY.
CanonPrivilege(p) == IF p = "TEMP" THEN "TEMPORARY" ELSE p

ValidPrivilege(class, p) == CanonPrivilege(p) \in ClassPrivileges(class)

\* The privileges a GRANT's list names: ALL stands for the whole class.
GrantedPrivileges(class, ps) ==
    UNION { IF p = "ALL" THEN ClassPrivileges(class) ELSE {CanonPrivilege(p)} : p \in Range(ps) }

\* Every database comes with schema public, table t1 and sequence s1 in it.
ObjectExists(c, o) ==
    CASE o.class = "database" -> o.name \in c.dbs
      [] o.class = "schema" -> o.db \in c.dbs /\ o.schema \in Schemas
      [] o.class = "table" -> o.db \in c.dbs /\ o.schema \in Schemas /\ o.name \in Tables
      [] o.class = "sequence" -> o.db \in c.dbs /\ o.schema \in Schemas /\ o.name \in Sequences_
      [] o.class = "parameter" -> o.name \in Parameters
      [] OTHER -> FALSE

\* The objects a GRANT addresses: one object, or with "*" every one in the schema.
GrantTargets(c, o) ==
    IF o.name = "*" /\ o.class \in {"table", "sequence"}
    THEN IF o.db \in c.dbs /\ o.schema \in Schemas
         THEN { Obj(o.class, o.db, o.schema, n) :
                    n \in (IF o.class = "table" THEN Tables ELSE Sequences_) }
         ELSE {}
    ELSE IF ObjectExists(c, o) THEN {o} ELSE {}

\* The roles `r` belongs to, directly or through other roles.
RECURSIVE GroupsOf(_, _, _)
GroupsOf(c, rs, n) ==
    IF n = 0 THEN rs
    ELSE GroupsOf(c, rs \cup { p[2] : p \in { q \in c.member : q[1] \in rs } }, n - 1)

MemberOfTransitively(c, r, g) == g \in GroupsOf(c, {r}, Cardinality(AllRoles))

Accepts(c, s) ==
    CASE s.k = "CREATE_ROLE" -> s.a # "" /\ s.a \notin c.roles
      [] s.k = "ALTER_ROLE" -> s.a \in c.roles
      [] s.k = "SET_PASSWORD" -> s.a \in c.roles
      [] s.k = "CREATE_DATABASE" ->
            /\ Unquoted(s.a) \notin c.dbs
            /\ s.b = "" \/ s.b \in c.roles
      [] s.k = "ALTER_DATABASE_OWNER" -> Unquoted(s.a) \in c.dbs /\ s.b \in c.roles
      [] s.k = "GRANT_ROLE" ->
            /\ s.a \in c.roles /\ s.b \in c.roles
            /\ ~MemberOfTransitively(c, s.a, s.b)     \* no circular membership
      [] s.k = "REVOKE_ROLE" -> s.a \in c.roles /\ s.b \in c.roles
      [] s.k = "DROP_ROLE" -> s.a \in c.roles /\ s.a # AdminUser
      [] s.k = "GRANT" ->
            /\ s.a \in c.roles
            /\ s.o.name = "*" \/ ObjectExists(c, s.o)
            /\ s.o.name = "*" => s.o.db \in c.dbs /\ s.o.schema \in Schemas
            /\ Len(s.c) > 0
            /\ \A p \in Range(s.c) : p = "ALL" \/ ValidPrivilege(s.o.class, p)
      [] s.k = "ALTER_DEFAULT_PRIVILEGES" ->
            /\ s.b \in c.roles
            /\ s.a = "" \/ s.a \in c.roles
            /\ s.o.db \in c.dbs /\ s.o.schema \in Schemas
            /\ Len(s.c) > 0
            /\ \A p \in Range(s.c) : p = "ALL" \/ ValidPrivilege(s.o.class, p)
      [] OTHER -> FALSE

\* CREATE USER implies LOGIN, CREATE ROLE does not; INHERIT is the default.
CreatedOptions(s) ==
    UserOptions(s.b = "USER" \/ "LOGIN PASSWORD" \in Range(s.c),
                "SUPERUSER" \in Range(s.c),
                "CREATEDB" \in Range(s.c),
                "CREATEROLE" \in Range(s.c),
                TRUE,
                "REPLICATION" \in Range(s.c),
                "BYPASSRLS" \in Range(s.c))

AlteredOption(old, cs, on, off) ==
    IF on \in cs THEN TRUE ELSE IF off \in cs THEN FALSE ELSE old

AlteredOptions(old, s) ==
    LET cs == Range(s.c) IN
    UserOptions(AlteredOption(old.Login, cs, "LOGIN", "NOLOGIN"),
                AlteredOption(old.Superuser, cs, "SUPERUSER", "NOSUPERUSER"),
                AlteredOption(old.CreateDatabase, cs, "CREATEDB", "NOCREATEDB"),
                AlteredOption(old.CreateRole, cs, "CREATEROLE", "NOCREATEROLE"),
                AlteredOption(old.Inherit, cs, "INHERIT", "NOINHERIT"),
                AlteredOption(old.Replication, cs, "REPLICATION", "NOREPLICATION"),
                AlteredOption(old.BypassRLS, cs, "BYPASSRLS", "NOBYPASSRLS"))

Apply(c, s) ==
    CASE s.k = "CREATE_ROLE" ->
            [c EXCEPT !.roles = @ \cup {s.a},
                      !.opt[s.a] = CreatedOptions(s),
                      !.pw[s.a] = StringLiteral(s.b2)]
      [] s.k = "ALTER_ROLE" -> [c EXCEPT !.opt[s.a] = AlteredOptions(@, s)]
      [] s.k = "SET_PASSWORD" ->
            [c EXCEPT !.opt[s.a] = [@ EXCEPT !.Login = TRUE],
                      !.pw[s.a] = StringLiteral(s.b2)]
      [] s.k = "CREATE_DATABASE" ->
            [c EXCEPT !.dbs = @ \cup {Unquoted(s.a)},
                      !.owner[Unquoted(s.a)] = IF s.b = "" THEN AdminUser ELSE s.b]
      [] s.k = "ALTER_DATABASE_OWNER" -> [c EXCEPT !.owner[Unquoted(s.a)] = s.b]
      [] s.k = "GRANT_ROLE" -> [c EXCEPT !.member = @ \cup {<<s.b, s.a>>}]
      [] s.k = "REVOKE_ROLE" -> [c EXCEPT !.member = @ \ {<<s.b, s.a>>}]
      [] s.k = "DROP_ROLE" ->
            [c EXCEPT !.roles = @ \ {s.a},
                      !.member = { p \in @ : s.a \notin {p[1], p[2]} }]
      [] s.k = "GRANT" ->
            LET new == { [u |-> s.a, o |-> t, p |-> p] :
                            t \in GrantTargets(c, s.o),
                            p \in GrantedPrivileges(s.o.class, s.c) }
            IN [c EXCEPT !.privs = @ \cup new,
                         !.gopt = IF s.w THEN @ \cup new ELSE @]
      [] s.k = "ALTER_DEFAULT_PRIVILEGES" ->
            [c EXCEPT !.defp = @ \cup
                { [role |-> IF s.a = "" THEN AdminUser ELSE s.a, o |-> s.o, to |-> s.b,
                   p |-> p, w |-> s.w] : p \in GrantedPrivileges(s.o.class, s.c) }]
      [] OTHER -> c

\* db.Exec: the statement is logged with the server's answer, and applied when
\* accepted.  `faults` are the statement kinds the driver fails in this call.
Exec(m, s, faults) ==
    LET ok == s.k \notin faults /\ Accepts(m.cat, s) IN
    [cat |-> IF ok THEN Apply(m.cat, s) ELSE m.cat,
     log |-> Append(m.log, [s EXCEPT !.ok = ok]),
     err |-> IF ok THEN "" ELSE s.k]

\* A catalog query: it is logged and cannot change the catalog.
Query(m, k, a, b, o, c) == Logged(m, Stmt(k, a, b, c, o, FALSE))

(***************************************************************************)
(* postgres_user.go                                                        *)
(***************************************************************************)

\* A userExists that folds the name to lower case before it asks.
userExistsFolded(m, name) ==
    [m |-> Query(m, "Q_USER_EXISTS", ToLower(name), "", NoObj, <<>>),
     v |-> ToLower(name) \in m.cat.roles]

\* userExists: SELECT 1 FROM pg_roles WHERE rolname = $1, the name as given.
userExists(m, name) ==
    [m |-> Query(m, "Q_USER_EXISTS", name, "", NoObj, <<>>),
     v |-> name \in m.cat.roles]

\* getUser: the live attributes of the role; no row is an error (sql.ErrNoRows).
getUser(m, name) ==
    LET q == Query(m, "Q_GET_USER", name, "", NoObj, <<>>) IN
    IF name \in m.cat.roles
    THEN [m |-> q, v |-> m.cat.opt[name]]
    ELSE [m |-> Fail(q, "no rows"), v |-> NoOptions]

\* The clauses createUser appends after CREATE USER|ROLE "name", in its order.
createUserClauses(user) ==
    (IF user.Password # "" THEN <<"LOGIN PASSWORD">> ELSE <<>>)
    \o (IF user.Options.Superuser THEN <<"SUPERUSER">> ELSE <<>>)
    \o (IF user.Options.CreateRole THEN <<"CREATEROLE">> ELSE <<>>)
    \o (IF user.Options.CreateDatabase THEN <<"CREATEDB">> ELSE <<>>)
    \o (IF user.Options.Inherit THEN <<"INHERIT">> ELSE <<>>)
    \o (IF user.Options.Replication THEN <<"REPLICATION">> ELSE <<>>)
    \o (IF user.Options.BypassRLS THEN <<"BYPASSRLS">> ELSE <<>>)

\* A createUser that always uses the ROLE form.
createUserRoleForm(m, user, faults) ==
    LET s == [Stmt("CREATE_ROLE", QuoteIdentifier(user.Name), "ROLE",
                   createUserClauses(user), NoObj, FALSE)
                EXCEPT !.b2 = user.Password]
    IN Exec(m, s, faults)

\* createUser: CREATE USER when a password is set or login is true, else CREATE ROLE.
createUser(m, user, faults) ==
    LET form == IF user.Options.Login \/ user.Password # "" THEN "USER" ELSE "ROLE"
        s == [Stmt("CREATE_ROLE", QuoteIdentifier(user.Name), form,
                   createUserClauses(user), NoObj, FALSE)
                EXCEPT !.b2 = user.Password]
    IN Exec(m, s, faults)

\* One option of updateUser's diff: a clause only when declared and live differ.
optionClause(declared, real, on, off) ==
    IF declared # real THEN (IF declared THEN <<on>> ELSE <<off>>) ELSE <<>>

\* An update that only ever adds options: no negating clause.
updateUserClausesAdditive(user, realUser) ==
    optionClause(user.Options.Superuser /\ ~realUser.Superuser, FALSE, "SUPERUSER", "NOSUPERUSER")
    \o optionClause(user.Options.CreateRole /\ ~realUser.CreateRole, FALSE, "CREATEROLE", "NOCREATEROLE")
    \o optionClause(user.Options.CreateDatabase /\ ~realUser.CreateDatabase, FALSE, "CREATEDB", "NOCREATEDB")
    \o optionClause(user.Options.Login /\ ~realUser.Login, FALSE, "LOGIN", "NOLOGIN")
    \o optionClause(user.Options.Inherit /\ ~realUser.Inherit, FALSE, "INHERIT", "NOINHERIT")
    \o optionClause(user.Options.Replication /\ ~realUser.Replication, FALSE, "REPLICATION", "NOREPLICATION")
    \o optionClause(user.Options.BypassRLS /\ ~realUser.BypassRLS, FALSE, "BYPASSRLS", "NOBYPASSRLS")

\* The clauses updateUser appends after ALTER USER "name", in its order.
updateUserClauses(user, realUser) ==
    optionClause(user.Options.Superuser, realUser.Superuser, "SUPERUSER", "NOSUPERUSER")
    \o optionClause(user.Options.CreateRole, realUser.CreateRole, "CREATEROLE", "NOCREATEROLE")
    \o optionClause(user.Options.CreateDatabase, realUser.CreateDatabase, "CREATEDB", "NOCREATEDB")
    \o optionClause(user.Options.Login, realUser.Login, "LOGIN", "NOLOGIN")
    \o optionClause(user.Options.Inherit, realUser.Inherit, "INHERIT", "NOINHERIT")
    \o optionClause(user.Options.Replication, realUser.Replication, "REPLICATION", "NOREPLICATION")
    \o optionClause(user.Options.BypassRLS, realUser.BypassRLS, "BYPASSRLS", "NOBYPASSRLS")

\* updateUser: the ALTER USER statement is executed whether or not a clause was added.
updateUser(m, user, faults) ==
    Bind(getUser(m, user.Name), LAMBDA real :
        IF real.m.err # "" THEN real.m
        ELSE Exec(real.m,
                  Stmt("ALTER_ROLE", QuoteIdentifier(user.Name), "",
                       updateUserClauses(user, real.v), NoObj, FALSE),
                  faults))

\* setPassword: ALTER USER "name" WITH LOGIN PASSWORD '...'.
setPassword(m, name, password, faults) ==
    Exec(m, [Stmt("SET_PASSWORD", QuoteIdentifier(name), "", <<"LOGIN PASSWORD">>, NoObj, FALSE)
                EXCEPT !.b2 = password],
         faults)

\* CreateUser: create or update, then set the password again when one is declared.
CreateUserOp(m, user, faults) ==
    Bind(userExists(m, user.Name), LAMBDA e :
    Bind(IF ~e.v THEN createUser(e.m, user, faults) ELSE updateUser(e.m, user, faults),
         LAMBDA m1 :
        IF m1.err # "" THEN m1
        ELSE IF user.Password # "" THEN setPassword(m1, user.Name, user.Password, faults)
        ELSE m1))

(***************************************************************************)
(* postgres_grant.go: role membership.                                     *)
(***************************************************************************)

\* A set as a sequence, in the order the server happens to return the rows.
RECURSIVE SetToSeq(_)
SetToSeq(S) ==
    IF S = {} THEN <<>>
    ELSE LET x == CHOOSE y \in S : TRUE IN <<x>> \o SetToSeq(S \ {x})

\* getRoles: the groups of the role named strings.ToLower(username).
getRoles(m, username) ==
    [m |-> Query(m, "Q_GET_ROLES", ToLower(username), "", NoObj, <<>>),
     v |-> SetToSeq({ p[2] : p \in { q \in m.cat.member : q[1] = ToLower(username) } })]

\* hasRole: true for username == role without a query; otherwise a direct
\* membership of username in the role named strings.ToLower(role).
hasRole(m, username, role) ==
    IF username = role THEN [m |-> m, v |-> TRUE]
    ELSE [m |-> Query(m, "Q_HAS_ROLE", ToLower(role), username, NoObj, <<>>),
          v |-> <<username, ToLower(role)>> \in m.cat.member]

\* addRole: GRANT "role" TO "username" unless it is a self-reference or hasRole.
addRole(m, username, role, faults) ==
    IF username = role THEN m
    ELSE Bind(hasRole(m, username, role), LAMBDA h :
            IF h.v THEN h.m
            ELSE Exec(h.m, Stmt("GRANT_ROLE", QuoteIdentifier(role), QuoteIdentifier(username),
                                <<>>, NoObj, FALSE), faults))

\* A removeRole that drops the role instead of revoking the membership.
removeRoleDropping(m, username, role, faults) ==
    IF username = role THEN m
    ELSE Bind(hasRole(m, username, role), LAMBDA h :
            IF ~h.v THEN h.m
            ELSE Exec(h.m, Stmt("DROP_ROLE", QuoteIdentifier(role), "", <<>>, NoObj, FALSE),
                      faults))

\* A removeRole without the check for a self-reference.
removeRoleOfAnyRole(m, username, role, faults) ==
    Bind(hasRole(m, username, role), LAMBDA h :
        IF ~h.v THEN h.m
        ELSE Exec(h.m, Stmt("REVOKE_ROLE", QuoteIdentifier(role), QuoteIdentifier(username),
                            <<>>, NoObj, FALSE), faults))

\* removeRole: REVOKE "role" FROM "username" unless it is a self-reference or not hasRole.
removeRole(m, username, role, faults) ==
    IF username = role THEN m
    ELSE Bind(hasRole(m, username, role), LAMBDA h :
            IF ~h.v THEN h.m
            ELSE Exec(h.m, Stmt("REVOKE_ROLE", QuoteIdentifier(role), QuoteIdentifier(username),
                                <<>>, NoObj, FALSE), faults))

(***************************************************************************)
(* postgres_grant.go: privileges.                                          *)
(***************************************************************************)

\* A scoped connection: Connect opens the handle and pings; the ping fails
\* when the database does not exist under exactly that name.
Connect(m, database) ==
    LET ok == database \in m.cat.dbs IN
    [cat |-> m.cat,
     log |-> Append(m.log, [Stmt("OPEN", database, "", <<>>, NoObj, FALSE) EXCEPT !.ok = ok]),
     err |-> IF ok THEN "" ELSE "ping"]

\* The deferred db.Disconnect(): it runs on every return and keeps the result.
Disconnect(m, database) == Logged(m, Stmt("CLOSE", database, "", <<>>, NoObj, FALSE))

\* The server's has_*_privilege(user, object, privilege).
Holds(c, username, o, privilege) ==
    \/ c.opt[username].Superuser
    \/ [u |-> username, o |-> o, p |-> CanonPrivilege(privilege)] \in c.privs

\* One SELECT has_*_privilege(...): an error for an unknown role, object or privilege.
PrivilegeQuery(m, username, o, privilege) ==
    LET q == Query(m, "Q_HAS_PRIVILEGE", username, "", o, <<privilege>>) IN
    IF username \in m.cat.roles /\ ObjectExists(m.cat, o) /\ ValidPrivilege(o.class, privilege)
    THEN [m |-> q, v |-> Holds(m.cat, username, o, privilege)]
    ELSE [m |-> Fail(q, "Q_HAS_PRIVILEGE"), v |-> FALSE]

\* for _, privilege := range privileges: false at the first one not held.
RECURSIVE hasEach(_, _, _, _, _)
hasEach(m, username, o, privileges, i) ==
    IF i > Len(privileges) THEN [m |-> m, v |-> TRUE]
    ELSE Bind(PrivilegeQuery(m, username, o, privileges[i]), LAMBDA h :
            IF h.m.err # "" THEN h
            ELSE IF ~h.v THEN h
            ELSE hasEach(h.m, username, o, privileges, i + 1))

\* What each check puts in place of a leading "ALL".
ExpandAll(privileges, all) == IF privileges[1] = "ALL" THEN all ELSE privileges

hasDatabasePrivilege(m, username, database, privileges) ==
    hasEach(m, username, Obj("database", "", "", database),
            ExpandAll(privileges, <<"CREATE", "CONNECT", "TEMPORARY", "TEMP">>), 1)

\* hasParameterPrivilege checks the one privilege it is given.
hasParameterPrivilege(m, username, parameter, privilege) ==
    PrivilegeQuery(m, username, Obj("parameter", "", "", parameter), privilege)

\* A table check that has no case for the wildcard.
hasTablePrivilegeOfAnyName(m, database, username, schema, table, privileges) ==
    hasEach(m, username, Obj("table", database, schema, table),
            ExpandAll(privileges, <<"SELECT", "INSERT", "UPDATE", "DELETE",
                                    "TRUNCATE", "REFERENCES", "TRIGGER">>), 1)

\* hasTablePrivilege: false for the wildcard without asking the server.
hasTablePrivilege(m, database, username, schema, table, privileges) ==
    IF table = "*" THEN [m |-> m, v |-> FALSE]
    ELSE hasEach(m, username, Obj("table", database, schema, table),
                 ExpandAll(privileges, <<"SELECT", "INSERT", "UPDATE", "DELETE",
                                         "TRUNCATE", "REFERENCES", "TRIGGER">>), 1)

\* hasSequencePrivilege: false for the wildcard; ALL stands for SELECT and UPDATE.
hasSequencePrivilege(m, database, username, schema, sequence, privileges) ==
    IF sequence = "*" THEN [m |-> m, v |-> FALSE]
    ELSE hasEach(m, username, Obj("sequence", database, schema, sequence),
                 ExpandAll(privileges, <<"SELECT", "UPDATE">>), 1)

hasSchemaPrivilege(m, database, username, schema, privileges) ==
    hasEach(m, username, Obj("schema", database, schema, ""),
            ExpandAll(privileges, <<"CREATE", "USAGE">>), 1)

grantDatabasePermissionQuery(username, grant) ==
    Stmt("GRANT", QuoteIdentifier(username), "", grant.Privileges,
         Obj("database", "", "", QuoteIdentifier(grant.Database)), grant.WithGrant)

\* No WITH GRANT OPTION is appended here.
grantParameterPermissionQuery(username, grant) ==
    Stmt("GRANT", QuoteIdentifier(username), "", grant.Privileges,
         Obj("parameter", "", "", grant.Parameter), FALSE)

\* The switch names an object only for a sequence or a table; for a schema
\* alone the statement reads GRANT ... ON TO "user" and names no object.
grantSchemaPermissionQuery(username, grant) ==
    LET o == CASE grant.Sequence = "*" -> Obj("sequence", grant.Database, grant.Schema, "*")
               [] grant.Sequence # "*" /\ grant.Sequence # "" ->
                    Obj("sequence", grant.Database, grant.Schema, grant.Sequence)
               [] grant.Sequence = "" /\ grant.Table = "*" ->
                    Obj("table", grant.Database, grant.Schema, "*")
               [] grant.Sequence = "" /\ grant.Table # "*" /\ grant.Table # "" ->
                    Obj("table", grant.Database, grant.Schema, grant.Table)
               [] OTHER -> Obj("", grant.Database, grant.Schema, "")
    IN Stmt("GRANT", QuoteIdentifier(username), "", grant.Privileges, o, grant.WithGrant)

\* The check grantPermission makes for the grant's scope; "invalid" when the
\* scope is none of the supported ones.
grantCheck(m, username, grant) ==
    CASE grant.Database = "" /\ grant.Parameter # "" ->
            hasParameterPrivilege(m, username, grant.Parameter, grant.Privileges[1])
      [] grant.Database # "" /\ grant.Schema = "" ->
            hasDatabasePrivilege(m, username, grant.Database, grant.Privileges)
      [] grant.Database # "" /\ grant.Schema # "" /\ grant.Table # "" ->
            hasTablePrivilege(m, grant.Database, username, grant.Schema, grant.Table,
                              grant.Privileges)
      [] grant.Database # "" /\ grant.Schema # "" /\ grant.Table = "" /\ grant.Sequence # "" ->
            hasSequencePrivilege(m, grant.Database, username, grant.Schema, grant.Sequence,
                                 grant.Privileges)
      [] grant.Database # "" /\ grant.Schema # "" /\ grant.Table = "" /\ grant.Sequence = "" ->
            hasSchemaPrivilege(m, grant.Database, username, grant.Schema, grant.Privileges)
      [] OTHER -> [m |-> Fail(m, "invalid grant options"), v |-> FALSE]

grantQuery(username, grant) ==
    CASE grant.Database = "" /\ grant.Parameter # "" ->
            grantParameterPermissionQuery(username, grant)
      [] grant.Database # "" /\ grant.Schema = "" ->
            grantDatabasePermissionQuery(username, grant)
      [] OTHER -> grantSchemaPermissionQuery(username, grant)

\* grantPermission: connect to the grant's database, check, and grant unless
\* the check says every privilege is held.  Indexing an empty privilege list
\* panics; the deferred Disconnect runs all the same.
grantPermission(m, username, grant, faults) ==
    LET database == IF grant.Database = "" THEN AdminDatabase ELSE grant.Database IN
    Bind(Connect(m, database), LAMBDA conn :
        IF conn.err # "" THEN conn
        ELSE IF Len(grant.Privileges) = 0
                 /\ ~(grant.Database = "" /\ grant.Parameter = "")
                 /\ ~(grant.Database # "" /\ grant.Schema # "" /\ grant.Table = "*")
                 /\ ~(grant.Database # "" /\ grant.Schema # "" /\ grant.Table = ""
                      /\ grant.Sequence = "*")
             THEN Disconnect(Fail(conn, "panic"), database)
        ELSE Bind(grantCheck(conn, username, grant), LAMBDA h :
                IF h.m.err # "" THEN Disconnect(h.m, database)
                ELSE IF h.v THEN Disconnect(h.m, database)
                ELSE Bind(Exec(h.m, grantQuery(username, grant), faults), LAMBDA x :
                        Disconnect(x, database))))

RECURSIVE grantEach(_, _, _, _, _)
grantEach(m, username, grants, i, faults) ==
    IF i > Len(grants) THEN m
    ELSE Bind(grantPermission(m, username, grants[i], faults), LAMBDA g :
            IF g.err # "" THEN g ELSE grantEach(g, username, grants, i + 1, faults))

RECURSIVE addEach(_, _, _, _, _)
addEach(m, username, roles, i, faults) ==
    IF i > Len(roles) THEN m
    ELSE Bind(addRole(m, username, roles[i], faults), LAMBDA a :
            IF a.err # "" THEN a ELSE addEach(a, username, roles, i + 1, faults))

\* The live roles that are not declared are removed (slices.Contains).
RECURSIVE removeEach(_, _, _, _, _, _)
removeEach(m, username, declared, roles, i, faults) ==
    IF i > Len(roles) THEN m
    ELSE IF roles[i] \in Range(declared)
         THEN removeEach(m, username, declared, roles, i + 1, faults)
         ELSE Bind(removeRole(m, username, roles[i], faults), LAMBDA r :
                 IF r.err # "" THEN r
                 ELSE removeEach(r, username, declared, roles, i + 1, faults))

\* A GrantPermissions that reconciles the memberships before it makes the grants.
GrantPermissionsOpRolesFirst(m, user, faults) ==
    Bind(userExists(m, user.Name), LAMBDA e :
        IF ~e.v THEN e.m
        ELSE Bind(addEach(e.m, user.Name, user.Roles, 1, faults), LAMBDA a :
            IF a.err # "" THEN a
            ELSE Bind(getRoles(a, user.Name), LAMBDA rs :
                 Bind(removeEach(rs.m, user.Name, user.Roles, rs.v, 1, faults), LAMBDA r :
                    IF r.err # "" THEN r
                    ELSE grantEach(r, user.Name, user.Grants, 1, faults)))))

\* A GrantPermissions that does not look the user up first.
GrantPermissionsOpUnchecked(m, user, faults) ==
    Bind(grantEach(m, user.Name, user.Grants, 1, faults), LAMBDA g :
        IF g.err # "" THEN g
        ELSE Bind(addEach(g, user.Name, user.Roles, 1, faults), LAMBDA a :
            IF a.err # "" THEN a
            ELSE Bind(getRoles(a, user.Name), LAMBDA rs :
                    removeEach(rs.m, user.Name, user.Roles, rs.v, 1, faults))))

\* GrantPermissions: nothing for a user that does not exist; otherwise the
\* grants, then the declared roles, then the removal of the undeclared ones.
GrantPermissionsOp(m, user, faults) ==
    Bind(userExists(m, user.Name), LAMBDA e :
        IF ~e.v THEN e.m
        ELSE Bind(grantEach(e.m, user.Name, user.Grants, 1, faults), LAMBDA g :
            IF g.err # "" THEN g
            ELSE Bind(addEach(g, user.Name, user.Roles, 1, faults), LAMBDA a :
                IF a.err # "" THEN a
                ELSE Bind(getRoles(a, user.Name), LAMBDA rs :
                        removeEach(rs.m, user.Name, user.Roles, rs.v, 1, faults)))))

(***************************************************************************)
(* postgres_database.go                                                    *)
(***************************************************************************)

\* How the toolchain scopes a range variable that a deferred closure captures:
\* one variable for the whole loop before Go 1.22, one per iteration since.
GoVersions == {"go1.21", "go1.22"}

\* databaseExists: SELECT 1 FROM pg_database WHERE datname = $1, the name as given.
databaseExists(m, name) ==
    [m |-> Query(m, "Q_DATABASE_EXISTS", name, "", NoObj, <<>>),
     v |-> name \in m.cat.dbs]

\* CREATE DATABASE name [OWNER "owner"]: the database name is not quoted.
createDatabaseQuery(database) ==
    Stmt("CREATE_DATABASE", database.Name,
         IF database.Owner # "" THEN QuoteIdentifier(database.Owner) ELSE "",
         <<>>, NoObj, FALSE)

\* A createDatabase that does not look the owner up before elevating.
createDatabaseUncheckedOwner(m, database, faults) ==
    Bind(databaseExists(m, database.Name), LAMBDA e :
        IF e.v THEN e.m
        ELSE IF database.Owner = "" THEN Exec(e.m, createDatabaseQuery(database), faults)
        ELSE Bind(addRole(e.m, AdminUser, database.Owner, faults), LAMBDA a :
            IF a.err # "" THEN a
            ELSE Bind(Exec(a, createDatabaseQuery(database), faults), LAMBDA w :
                 Bind(removeRole([w EXCEPT !.err = ""], AdminUser, database.Owner, faults),
                      LAMBDA r : [r EXCEPT !.err = w.err]))))

\* createDatabase: nothing for a database that exists.  With an owner: the
\* owner must exist; the principal joins the owner role, the database is
\* created, and the deferred removeRole runs, its error only logged.
createDatabase(m, database, faults) ==
    Bind(databaseExists(m, database.Name), LAMBDA e :
        IF e.v THEN e.m
        ELSE IF database.Owner = "" THEN Exec(e.m, createDatabaseQuery(database), faults)
        ELSE Bind(userExists(e.m, database.Owner), LAMBDA u :
            IF ~u.v THEN Fail(u.m, "owner does not exist")
            ELSE Bind(addRole(u.m, AdminUser, database.Owner, faults), LAMBDA a :
                IF a.err # "" THEN a
                ELSE Bind(Exec(a, createDatabaseQuery(database), faults), LAMBDA w :
                     Bind(removeRole([w EXCEPT !.err = ""], AdminUser, database.Owner, faults),
                          LAMBDA r : [r EXCEPT !.err = w.err])))))

\* getDatabaseOwner: the owner of the database of exactly that name; no row
\* is an error (sql.ErrNoRows).
getDatabaseOwner(m, database) ==
    LET q == Query(m, "Q_GET_DATABASE_OWNER", database, "", NoObj, <<>>) IN
    IF database \in m.cat.dbs
    THEN [m |-> q, v |-> m.cat.owner[database]]
    ELSE [m |-> Fail(q, "no rows"), v |-> ""]

\* ALTER DATABASE name OWNER TO "owner": the database name is not quoted.
alterDatabaseOwnerQuery(database) ==
    Stmt("ALTER_DATABASE_OWNER", database.Name, QuoteIdentifier(database.Owner),
         <<>>, NoObj, FALSE)

\* An updateDatabaseOwner that returns what the deferred removeRole returned.
updateDatabaseOwnerReturningRevoke(m, database, faults) ==
    IF database.Owner = "" THEN m
    ELSE Bind(getDatabaseOwner(m, database.Name), LAMBDA o :
        IF o.m.err # "" THEN o.m
        ELSE IF o.v = database.Owner THEN o.m
        ELSE Bind(addRole(o.m, AdminUser, database.Owner, faults), LAMBDA a :
            IF a.err # "" THEN a
            ELSE Bind(Exec(a, alterDatabaseOwnerQuery(database), faults), LAMBDA w :
                 Bind(removeRole([w EXCEPT !.err = ""], AdminUser, database.Owner, faults),
                      LAMBDA r : IF w.err # "" THEN [r EXCEPT !.err = w.err] ELSE r))))

\* An updateDatabaseOwner that does not compare the live owner with the declared one.
updateDatabaseOwnerUncompared(m, database, faults) ==
    IF database.Owner = "" THEN m
    ELSE Bind(getDatabaseOwner(m, database.Name), LAMBDA o :
        IF o.m.err # "" THEN o.m
        ELSE Bind(addRole(o.m, AdminUser, database.Owner, faults), LAMBDA a :
            IF a.err # "" THEN a
            ELSE Bind(Exec(a, alterDatabaseOwnerQuery(database), faults), LAMBDA w :
                 Bind(removeRole([w EXCEPT !.err = ""], AdminUser, database.Owner, faults),
                      LAMBDA r : [r EXCEPT !.err = w.err]))))

\* An updateDatabaseOwner that does not return early without a declared owner.
updateDatabaseOwnerUnguarded(m, database, faults) ==
    Bind(getDatabaseOwner(m, database.Name), LAMBDA o :
        IF o.m.err # "" THEN o.m
        ELSE IF o.v = database.Owner THEN o.m
        ELSE Bind(addRole(o.m, AdminUser, database.Owner, faults), LAMBDA a :
            IF a.err # "" THEN a
            ELSE Bind(Exec(a, alterDatabaseOwnerQuery(database), faults), LAMBDA w :
                 Bind(removeRole([w EXCEPT !.err = ""], AdminUser, database.Owner, faults),
                      LAMBDA r : [r EXCEPT !.err = w.err]))))

\* updateDatabaseOwner: nothing without a declared owner or when it is the
\* live one.  Otherwise the principal joins the owner role, the owner is
\* altered, and the deferred removeRole runs.  The returned value is read before the deferred
\* call assigns removeRoleErr, so it is the statement's result.
updateDatabaseOwner(m, database, faults) ==
    IF database.Owner = "" THEN m
    ELSE Bind(getDatabaseOwner(m, database.Name), LAMBDA o :
        IF o.m.err # "" THEN o.m
        ELSE IF o.v = database.Owner THEN o.m
        ELSE Bind(addRole(o.m, AdminUser, database.Owner, faults), LAMBDA a :
            IF a.err # "" THEN a
            ELSE Bind(Exec(a, alterDatabaseOwnerQuery(database), faults), LAMBDA w :
                 Bind(removeRole([w EXCEPT !.err = ""], AdminUser, database.Owner, faults),
                      LAMBDA r : [r EXCEPT !.err = w.err]))))

\* The object class a default-privilege rule's On names.
OnClass(on) ==
    CASE on = "TABLES" -> "table"
      [] on = "SEQUENCES" -> "sequence"
      [] OTHER -> ""

\* alterDefaultPrivilegeQuery: FOR ROLE only with an acting role.
alterDefaultPrivilegeQuery(database, privilege) ==
    Stmt("ALTER_DEFAULT_PRIVILEGES",
         IF privilege.Role # "" THEN QuoteIdentifier(privilege.Role) ELSE "",
         QuoteIdentifier(privilege.To), privilege.Grant,
         Obj(OnClass(privilege.On), database, QuoteIdentifier(privilege.Schema), ""),
         privilege.WithGrant)

\* The condition under which a rule is elevated, as written.
Elevated(privilege) == privilege.Role # "" \/ privilege.Role # AdminUser

\* A loop that goes on to the next rule when a statement fails.
RECURSIVE alterEachIgnoringErrors(_, _, _, _, _)
alterEachIgnoringErrors(m, database, privileges, i, faults) ==
    IF i > Len(privileges) THEN [m |-> [m EXCEPT !.err = ""], v |-> Len(privileges)]
    ELSE Bind(IF Elevated(privileges[i])
              THEN addRole(m, AdminUser, privileges[i].Role, faults)
              ELSE m, LAMBDA a :
         Bind(Exec([a EXCEPT !.err = ""],
                   alterDefaultPrivilegeQuery(database, privileges[i]), faults), LAMBDA w :
            alterEachIgnoringErrors(w, database, privileges, i + 1, faults)))

\* The loop of alterDefaultPrivileges: per rule addRole (its error only
\* logged), then the statement; the first failing statement ends the loop.
\* v is the rule the loop stopped at, or the number of rules.
RECURSIVE alterEach(_, _, _, _, _)
alterEach(m, database, privileges, i, faults) ==
    IF i > Len(privileges) THEN [m |-> m, v |-> Len(privileges)]
    ELSE Bind(IF Elevated(privileges[i])
              THEN addRole(m, AdminUser, privileges[i].Role, faults)
              ELSE m, LAMBDA a :
         Bind(Exec([a EXCEPT !.err = ""],
                   alterDefaultPrivilegeQuery(database, privileges[i]), faults), LAMBDA w :
            IF w.err # "" THEN [m |-> w, v |-> i]
            ELSE alterEach(w, database, privileges, i + 1, faults)))

\* The deferred removeRole closures of the rules 1..n, the last registered
\* first.  Each reads the range variable `privilege`: the rule of its own
\* iteration, or, when the loop has one variable, the rule it holds at return.
RECURSIVE runDeferred(_, _, _, _, _, _)
runDeferred(m, privileges, n, at, build, faults) ==
    IF n = 0 THEN m
    ELSE IF ~Elevated(privileges[n]) THEN runDeferred(m, privileges, n - 1, at, build, faults)
    ELSE LET role == IF build = "go1.21" THEN privileges[at].Role ELSE privileges[n].Role IN
         Bind(removeRole(m, AdminUser, role, faults), LAMBDA r :
            runDeferred(r, privileges, n - 1, at, build, faults))

\* alterDefaultPrivileges: a connection scoped to the database, the loop, the
\* deferred removals and the deferred Disconnect.  The returned value is the
\* failing statement's error, or nil.
alterDefaultPrivileges(m, database, privileges, build, faults) ==
    Bind(Connect(m, database), LAMBDA conn :
        IF conn.err # "" THEN conn
        ELSE Bind(alterEach(conn, database, privileges, 1, faults), LAMBDA l :
             Bind(runDeferred([l.m EXCEPT !.err = ""], privileges, l.v, l.v, build, faults),
                  LAMBDA d : [Disconnect(d, database) EXCEPT !.err = l.m.err])))

\* updateDatabase: the owner, then the default privileges.
updateDatabase(m, database, build, faults) ==
    Bind(updateDatabaseOwner(m, database, faults), LAMBDA o :
        IF o.err # "" THEN o
        ELSE alterDefaultPrivileges(o, database.Name, database.DefaultPrivileges, build, faults))

\* CreateDatabase: createDatabase, updateDatabase, and the default privileges once more.
CreateDatabaseOp(m, database, build, faults) ==
    Bind(createDatabase(m, database, faults), LAMBDA c :
        IF c.err # "" THEN c
        ELSE Bind(updateDatabase(c, database, build, faults), LAMBDA u :
            IF u.err # "" THEN u
            ELSE alterDefaultPrivileges(u, database.Name, database.DefaultPrivileges,
                                        build, faults)))

(***************************************************************************)
(* postgres.go: Manage.                                                    *)
(***************************************************************************)

RECURSIVE createUsers(_, _, _, _)
createUsers(m, users, i, faults) ==
    IF i > Len(users) THEN m
    ELSE Bind(CreateUserOp(Called(m, "CreateUser", users[i].Name), users[i], faults),
              LAMBDA c :
            IF c.err # "" THEN c ELSE createUsers(c, users, i + 1, faults))

\* A loop that goes on to the next database when one fails, and returns the
\* first error at the end.
RECURSIVE createDatabasesContinuing(_, _, _, _, _)
createDatabasesContinuing(m, databases, i, build, faults) ==
    IF i > Len(databases) THEN m
    ELSE Bind(CreateDatabaseOp(Called([m EXCEPT !.err = ""], "CreateDatabase", databases[i].Name),
                               databases[i], build, faults), LAMBDA c :
            createDatabasesContinuing([c EXCEPT !.err = IF m.err # "" THEN m.err ELSE c.err],
                                      databases, i + 1, build, faults))

RECURSIVE createDatabases(_, _, _, _, _)
createDatabases(m, databases, i, build, faults) ==
    IF i > Len(databases) THEN m
    ELSE Bind(CreateDatabaseOp(Called(m, "CreateDatabase", databases[i].Name),
                               databases[i], build, faults), LAMBDA c :
            IF c.err # "" THEN c ELSE createDatabases(c, databases, i + 1, build, faults))

\* GrantPermissions(username, database, grants), as Manage calls it: nothing
\* for a user that does not exist, otherwise grantPermission for each grant.
grantPermissionsTo(m, username, grants, faults) ==
    Bind(userExists(m, username), LAMBDA e :
        IF ~e.v THEN e.m ELSE grantEach(e.m, username, grants, 1, faults))

\* for each user, for each of its grants: GrantPermissions of that one grant.
RECURSIVE grantUsers(_, _, _, _, _)
grantUsers(m, users, i, j, faults) ==
    IF i > Len(users) THEN m
    ELSE IF j > Len(users[i].Grants) THEN grantUsers(m, users, i + 1, 1, faults)
    ELSE Bind(grantPermissionsTo(Called(m, "GrantPermissions", users[i].Name),
                                 users[i].Name, <<users[i].Grants[j]>>, faults), LAMBDA g :
            IF g.err # "" THEN g ELSE grantUsers(g, users, i, j + 1, faults))

\* A Manage that creates the databases before the users.
ManageOpDatabasesFirst(m, databases, users, build, faults) ==
    Bind(createDatabases(m, databases, 1, build, faults), LAMBDA d :
        IF d.err # "" THEN d
        ELSE Bind(createUsers(d, users, 1, faults), LAMBDA u :
            IF u.err # "" THEN u
            ELSE grantUsers(u, users, 1, 1, faults)))

\* Manage: the users, then the databases, then the grants; the first error ends it.
ManageOp(m, databases, users, build, faults) ==
    Bind(createUsers(m, users, 1, faults), LAMBDA u :
        IF u.err # "" THEN u
        ELSE Bind(createDatabases(u, databases, 1, build, faults), LAMBDA d :
            IF d.err # "" THEN d
            ELSE grantUsers(d, users, 1, 1, faults)))

(***************************************************************************)
(* The MySQL engine (mysqlManager) and the part of a MySQL server it uses. *)
(* The catalog record is the same; roles are the accounts 'name'@'%', dbs  *)
(* the schemata, privs the database-level privileges.                      *)
(***************************************************************************)

MysqlAdminUser == "root"
MysqlUsers == {"app", "ops"}
MysqlDbs == {"appdb", "AppDb"}

\* A fresh MySQL server: the root account and the system schema.
MysqlFreshCatalog ==
    Catalog({MysqlAdminUser},
            [r \in MysqlUsers \cup {MysqlAdminUser} |-> NoOptions],
            [r \in MysqlUsers \cup {MysqlAdminUser} |-> ""],
            {"mysql"},
            [d \in MysqlDbs \cup {"mysql"} |-> ""],
            {}, {}, {}, {})

\* Database-level privileges of MySQL that the declarations use.
MysqlPrivileges == {"SELECT", "INSERT", "UPDATE", "DELETE"}

\* Schema names are compared as written (lower_case_table_names = 0, the
\* default on Linux); GRANT does not create accounts and does not need the
\* schema to exist.
MysqlAccepts(c, s) ==
    CASE s.k = "CREATE_ROLE" -> s.a # "" /\ s.a \notin c.roles
      [] s.k = "SET_PASSWORD" -> s.a \in c.roles
      [] s.k = "CREATE_DATABASE" -> s.a # "" /\ s.a \notin c.dbs
      [] s.k = "GRANT" ->
            /\ s.a \in c.roles
            /\ s.o.db # ""
            /\ Len(s.c) > 0
            /\ \A p \in Range(s.c) : p = "ALL" \/ p \in MysqlPrivileges
      [] OTHER -> FALSE

MysqlApply(c, s) ==
    CASE s.k = "CREATE_ROLE" ->
            [c EXCEPT !.roles = @ \cup {s.a}, !.pw[s.a] = StringLiteral(s.b2)]
      [] s.k = "SET_PASSWORD" -> [c EXCEPT !.pw[s.a] = StringLiteral(s.b2)]
      [] s.k = "CREATE_DATABASE" -> [c EXCEPT !.dbs = @ \cup {s.a}]
      [] s.k = "GRANT" ->
            LET new == { [u |-> s.a, o |-> s.o, p |-> p] :
                            p \in UNION { IF q = "ALL" THEN MysqlPrivileges ELSE {q} :
                                            q \in Range(s.c) } }
            IN [c EXCEPT !.privs = @ \cup new,
                         !.gopt = IF s.w THEN @ \cup new ELSE @]
      [] OTHER -> c

\* m.db.Exec against the MySQL server.
MysqlExec(m, s, faults) ==
    LET ok == s.k \notin faults /\ MysqlAccepts(m.cat, s) IN
    [cat |-> IF ok THEN MysqlApply(m.cat, s) ELSE m.cat,
     log |-> Append(m.log, [s EXCEPT !.ok = ok]),
     err |-> IF ok THEN "" ELSE s.k]

\* userExists: SELECT User FROM mysql.user WHERE User = ?; no row is false.
mysqlManager_userExists(m, name) ==
    [m |-> Query(m, "Q_USER_EXISTS", name, "", NoObj, <<>>),
     v |-> name \in m.cat.roles]

\* createUser: CREATE USER 'name'@'%' IDENTIFIED BY 'password'.
mysqlManager_createUser(m, user, faults) ==
    MysqlExec(m, [Stmt("CREATE_ROLE", user.Name, "USER", <<>>, NoObj, FALSE)
                    EXCEPT !.b2 = user.Password], faults)

\* setPassword: ALTER USER 'name'@'%' IDENTIFIED BY 'password'.
mysqlManager_setPassword(m, name, password, faults) ==
    MysqlExec(m, [Stmt("SET_PASSWORD", name, "", <<>>, NoObj, FALSE)
                    EXCEPT !.b2 = password], faults)

\* CreateUser: create when absent, then set the password when one is declared.
mysqlManager_CreateUser(m, user, faults) ==
    Bind(mysqlManager_userExists(m, user.Name), LAMBDA e :
    Bind(IF ~e.v THEN mysqlManager_createUser(e.m, user, faults) ELSE e.m, LAMBDA c :
        IF c.err # "" THEN c
        ELSE IF user.Password # ""
             THEN mysqlManager_setPassword(c, user.Name, user.Password, faults)
        ELSE c))

\* databaseExists: SELECT SCHEMA_NAME FROM INFORMATION_SCHEMA.SCHEMATA WHERE SCHEMA_NAME = ?.
mysqlManager_databaseExists(m, name) ==
    [m |-> Query(m, "Q_DATABASE_EXISTS", name, "", NoObj, <<>>),
     v |-> name \in m.cat.dbs]

\* createDatabase: CREATE DATABASE name.
mysqlManager_createDatabase(m, database, faults) ==
    MysqlExec(m, Stmt("CREATE_DATABASE", database.Name, "", <<>>, NoObj, FALSE), faults)

\* CreateDatabase: nothing for a database that exists.
mysqlManager_CreateDatabase(m, database, faults) ==
    Bind(mysqlManager_databaseExists(m, database.Name), LAMBDA e :
        IF e.v THEN e.m ELSE mysqlManager_createDatabase(e.m, database, faults))

\* The loop of GrantPermissions: GRANT privileges ON database.* TO 'name'@'%'.
RECURSIVE mysqlGrantEach(_, _, _, _, _)
mysqlGrantEach(m, username, grants, i, faults) ==
    IF i > Len(grants) THEN m
    ELSE Bind(MysqlExec(m, Stmt("GRANT", username, "", grants[i].Privileges,
                                Obj("database", grants[i].Database, "", "*"),
                                grants[i].WithGrant), faults), LAMBDA g :
            IF g.err # "" THEN g ELSE mysqlGrantEach(g, username, grants, i + 1, faults))

\* GrantPermissions: nothing for a user that does not exist.
mysqlManager_GrantPermissions(m, user, faults) ==
    Bind(mysqlManager_userExists(m, user.Name), LAMBDA e :
        IF ~e.v THEN e.m ELSE mysqlGrantEach(e.m, user.Name, user.Grants, 1, faults))

RECURSIVE mysqlCreateDatabases(_, _, _, _)
mysqlCreateDatabases(m, databases, i, faults) ==
    IF i > Len(databases) THEN m
    ELSE Bind(mysqlManager_CreateDatabase(Called(m, "CreateDatabase", databases[i].Name),
                                          databases[i], faults), LAMBDA c :
            IF c.err # "" THEN c ELSE mysqlCreateDatabases(c, databases, i + 1, faults))

\* for _, user := range users: CreateUser, then GrantPermissions, of that user.
RECURSIVE mysqlCreateAndGrantUsers(_, _, _, _)
mysqlCreateAndGrantUsers(m, users, i, faults) ==
    IF i > Len(users) THEN m
    ELSE Bind(mysqlManager_CreateUser(Called(m, "CreateUser", users[i].Name),
                                      users[i], faults), LAMBDA c :
            IF c.err # "" THEN c
            ELSE Bind(mysqlManager_GrantPermissions(
                          Called(c, "GrantPermissions", users[i].Name), users[i], faults),
                      LAMBDA g :
                    IF g.err # "" THEN g
                    ELSE mysqlCreateAndGrantUsers(g, users, i + 1, faults)))

\* Manage: the databases, then user by user.
mysqlManager_Manage(m, databases, users, faults) ==
    Bind(mysqlCreateDatabases(m, databases, 1, faults), LAMBDA d :
        IF d.err # "" THEN d ELSE mysqlCreateAndGrantUsers(d, users, 1, faults))

(***************************************************************************)
(* The operations as actions.                                              *)
(***************************************************************************)

\* What `last` records of an operation.
Record(op, users, dbs, faults, r, run) ==
    [op |-> op, users |-> users, dbs |-> dbs, faults |-> faults, pre |-> cat,
     log |-> r.log, err |-> r.err, run |-> run, build |-> last.build]

\* Before the first operation; `build` is the toolchain the engine was built with.
NoOperation(build) ==
    [op |-> "", users |-> <<>>, dbs |-> <<>>, faults |-> {}, pre |-> FreshCatalog,
     log |-> <<>>, err |-> "", run |-> 0, build |-> build]

CreateUser(user, faults) ==
    \E r \in {CreateUserOp(Start(cat), user, faults)} :
        /\ cat' = r.cat
        /\ last' = Record("CreateUser", <<user>>, <<>>, faults, r, 1)

GrantPermissions(user, faults) ==
    \E r \in {GrantPermissionsOp(Start(cat), user, faults)} :
        /\ cat' = r.cat
        /\ last' = Record("GrantPermissions", <<user>>, <<>>, faults, r, 1)

\* `run` is 2 when this CreateDatabase repeats the previous operation: the
\* same declaration, directly after a CreateDatabase that succeeded.
CreateDatabase(database, faults) ==
    LET again == /\ last.op = "CreateDatabase" /\ last.err = "" /\ last.faults = {}
                 /\ last.dbs = <<database>> /\ faults = {}
    IN \E r \in {CreateDatabaseOp(Start(cat), database, last.build, faults)} :
        /\ cat' = r.cat
        /\ last' = Record("CreateDatabase", <<>>, <<database>>, faults, r,
                          IF again THEN 2 ELSE 1)

\* `run` is 2 when this Manage repeats the previous operation: the same
\* declarations, directly after a Manage that succeeded, nothing in between.
Manage(databases, users, faults) ==
    LET again == /\ last.op = "Manage" /\ last.err = "" /\ last.faults = {}
                 /\ last.dbs = databases /\ last.users = users /\ faults = {}
    IN \E r \in {ManageOp(Start(cat), databases, users, last.build, faults)} :
        /\ cat' = r.cat
        /\ last' = Record("Manage", users, databases, faults, r, IF again THEN 2 ELSE 1)

\* Every sequence over S of length at most n.
RECURSIVE SeqsUpTo(_, _)
SeqsUpTo(S, n) ==
    IF n = 0 THEN {<<>>}
    ELSE LET shorter == SeqsUpTo(S, n - 1) IN
         shorter \cup { Append(s, x) : s \in { q \in shorter : Len(q) = n - 1 }, x \in S }

\* A server on which the roles of RoleNames were created: the catalog after
\* CreateUser for each of them.
SeededRoles ==
    createUsers(Start(FreshCatalog),
                << User("app", "", NoOptions, <<>>, <<>>),
                   User("Dev", "", NoOptions, <<>>, <<>>),
                   User("ops", "", NoOptions, <<>>, <<>>) >>, 1, {}).cat

\* The same server after CREATE DATABASE appdb.
SeededCatalog ==
    Exec(Start(SeededRoles), Stmt("CREATE_DATABASE", "appdb", "", <<>>, NoObj, FALSE), {}).cat

(***************************************************************************)
(* SpecUser: CreateUser alone, over every combination of the seven options.*)
(***************************************************************************)

UserNamesU == {"app"}

\* Declared option sets: none, all, exactly one, and all but one of the seven.
OptionChoices ==
    { o \in AllOptions : Cardinality({ f \in DOMAIN o : o[f] }) \in {0, 1, 6, 7} }

UserDeclsU ==
    { User(n, p, o, <<>>, <<>>) : n \in UserNamesU, p \in {"", "p1"}, o \in OptionChoices }
    \cup { User(n, p, NoOptions, <<>>, <<>>) : n \in UserNamesU, p \in Passwords }

InitUser ==
    /\ cat = FreshCatalog
    /\ last = NoOperation("go1.22")     \* no operation here reads the build

CreateAnyUser == \E u \in UserDeclsU : CreateUser(u, {})

CreateUserFailing ==
    \E u \in { d \in UserDeclsU : d.Password \in {"", "p1"} },
       k \in {"CREATE_ROLE", "ALTER_ROLE", "SET_PASSWORD"} :
        CreateUser(u, {k})

NextUser == CreateAnyUser \/ CreateUserFailing

SpecUser == InitUser /\ [][NextUser]_vars

(***************************************************************************)
(* SpecName: CreateUser over role names of different shapes.               *)
(***************************************************************************)

UserNamesN == {"app", "Dev", DashedName}

UserDeclsN == { User(n, p, NoOptions, <<>>, <<>>) : n \in UserNamesN, p \in {"", "p1"} }

InitName ==
    /\ cat = FreshCatalog
    /\ last = NoOperation("go1.22")     \* no operation here reads the build

CreateNamedUser == \E u \in UserDeclsN : CreateUser(u, {})

CreateNamedUserFailing ==
    \E u \in { d \in UserDeclsN : d.Password = "" }, k \in {"CREATE_ROLE", "ALTER_ROLE"} :
        CreateUser(u, {k})

NextName == CreateNamedUser \/ CreateNamedUserFailing

SpecName == InitName /\ [][NextName]_vars

(***************************************************************************)
(* SpecGrant: GrantPermissions of privileges to one user.                  *)
(***************************************************************************)

MaxGrants == 2

TableGrant(table, privileges) == Grant("appdb", "public", table, "", "", privileges, FALSE)
SequenceGrant(sequence, privileges) == Grant("appdb", "public", "", sequence, "", privileges, FALSE)
ParameterGrant(privileges) == Grant("", "", "", "", "session_replication_role", privileges, FALSE)

GrantChoices ==
    { TableGrant("*", <<"SELECT">>),
      SequenceGrant("*", <<"SELECT", "UPDATE">>),
      SequenceGrant("s1", <<"ALL">>),
      ParameterGrant(<<"SET">>),
      ParameterGrant(<<"SET", "ALTER SYSTEM">>) }

UserDeclsG == { User("app", "", NoOptions, gs, <<>>) : gs \in SeqsUpTo(GrantChoices, MaxGrants) }

InitGrant ==
    /\ cat = SeededCatalog
    /\ last = NoOperation("go1.22")     \* no operation here reads the build

GrantPrivileges == \E u \in UserDeclsG : GrantPermissions(u, {})

GrantPrivilegesFailing ==
    \E u \in { d \in UserDeclsG : Len(d.Grants) = 1 } : GrantPermissions(u, {"GRANT"})

NextGrant == GrantPrivileges \/ GrantPrivilegesFailing

SpecGrant == InitGrant /\ [][NextGrant]_vars

(***************************************************************************)
(* SpecRole: GrantPermissions of role memberships.                         *)
(***************************************************************************)

MaxRoles == 2

UserDeclsR ==
    { User(n, "", NoOptions, <<>>, rs) :
        n \in {"app", "Dev", "ghost"}, rs \in SeqsUpTo(RoleNames, MaxRoles) }

InitRole ==
    /\ cat = SeededCatalog
    /\ last = NoOperation("go1.22")     \* no operation here reads the build

GrantRoles == \E u \in UserDeclsR : GrantPermissions(u, {})

GrantRolesFailing ==
    \E u \in { d \in UserDeclsR : Len(d.Roles) = 1 }, k \in {"GRANT_ROLE", "REVOKE_ROLE"} :
        GrantPermissions(u, {k})

NextRole == GrantRoles \/ GrantRolesFailing

SpecRole == InitRole /\ [][NextRole]_vars

(***************************************************************************)
(* SpecDatabase: CreateDatabase on a server that has the roles.            *)
(***************************************************************************)

MaxRules == 2

\* Default-privilege rules with acting roles ops and app.
RuleChoices ==
    { DefaultPrivilege(r, "public", <<"SELECT">>, "TABLES", "app", FALSE) : r \in {"ops", "app"} }

\* Owners: none, ops, the mixed-case Dev, and ghost, which does not exist.
DatabaseDecls ==
    { Database("appdb", o, ps) :
        o \in {"", "ops", "Dev", "ghost"}, ps \in SeqsUpTo(RuleChoices, MaxRules) }

InitDatabase ==
    /\ cat = SeededRoles
    /\ last \in { NoOperation(b) : b \in GoVersions }

CreateAnyDatabase == \E d \in DatabaseDecls : CreateDatabase(d, {})

\* Failures of the driver: one statement kind, or a wrapped statement and the
\* revoke after it.
FaultChoices ==
    { {k} : k \in {"CREATE_DATABASE", "ALTER_DATABASE_OWNER", "ALTER_DEFAULT_PRIVILEGES",
                   "GRANT_ROLE", "REVOKE_ROLE"} }
    \cup { {k, "REVOKE_ROLE"} :
             k \in {"CREATE_DATABASE", "ALTER_DATABASE_OWNER", "ALTER_DEFAULT_PRIVILEGES"} }

CreateDatabaseFailing ==
    \E d \in { x \in DatabaseDecls : x.Owner = "ops" /\ Len(x.DefaultPrivileges) <= 1 },
       f \in FaultChoices :
        CreateDatabase(d, f)

NextDatabase == CreateAnyDatabase \/ CreateDatabaseFailing

SpecDatabase == InitDatabase /\ [][NextDatabase]_vars

(***************************************************************************)
(* SpecDbName: CreateDatabase over database names with and without         *)
(* upper-case letters.                                                     *)
(***************************************************************************)

DatabaseDeclsD ==
    { Database(n, o, ps) :
        n \in DbNames, o \in {"", "ops", "app"}, ps \in SeqsUpTo(RuleChoices, 1) }

InitDbName ==
    /\ cat = SeededRoles
    /\ last \in { NoOperation(b) : b \in GoVersions }

CreateNamedDatabase == \E d \in DatabaseDeclsD : CreateDatabase(d, {})

CreateNamedDatabaseFailing ==
    \E d \in { x \in DatabaseDeclsD : x.DefaultPrivileges = <<>> } :
        CreateDatabase(d, {"CREATE_DATABASE"})

NextDbName == CreateNamedDatabase \/ CreateNamedDatabaseFailing

SpecDbName == InitDbName /\ [][NextDbName]_vars

(***************************************************************************)
(* SpecDefault: default-privilege rules for a grantee that is created      *)
(* later, on a server that has the database.                               *)
(***************************************************************************)

Grantee == "ghost"

\* Rules for the grantee: no acting role, ops, and the mixed-case Dev.
RuleChoicesG ==
    { DefaultPrivilege(r, "public", <<"SELECT">>, "TABLES", Grantee, FALSE) :
        r \in {"", "ops", "Dev"} }

DatabaseDeclsG ==
    { Database("appdb", "", ps) : ps \in SeqsUpTo(RuleChoicesG, MaxRules) }

InitDefault ==
    /\ cat = SeededCatalog
    /\ last \in { [NoOperation(b) EXCEPT !.pre = SeededCatalog] : b \in GoVersions }

ApplyDefaults == \E d \in DatabaseDeclsG : CreateDatabase(d, {})

ApplyDefaultsFailing ==
    \E d \in { x \in DatabaseDeclsG : Len(x.DefaultPrivileges) = 1 } :
        CreateDatabase(d, {"ALTER_DEFAULT_PRIVILEGES"})

CreateGrantee == CreateUser(User(Grantee, "", NoOptions, <<>>, <<>>), {})

NextDefault == ApplyDefaults \/ ApplyDefaultsFailing \/ CreateGrantee

SpecDefault == InitDefault /\ [][NextDefault]_vars

(***************************************************************************)
(* SpecManage: Manage on a fresh server, run after run.                    *)
(***************************************************************************)

UserDeclsM ==
    { User("app", p, NoOptions, gs, <<>>) :
        p \in {"", "p1"},
        gs \in {<<>>, <<TableGrant("*", <<"SELECT">>)>>,
                <<SequenceGrant("s1", <<"SELECT", "UPDATE">>)>>} }

DatabaseDeclsM ==
    { Database("appdb", "", <<>>),
      Database("appdb", "app",
               <<DefaultPrivilege("app", "public", <<"SELECT">>, "TABLES", "app", FALSE)>>) }

InitManage ==
    /\ cat = FreshCatalog
    /\ last \in { NoOperation(b) : b \in GoVersions }

ManageAny ==
    \E ds \in SeqsUpTo(DatabaseDeclsM, 1), us \in SeqsUpTo(UserDeclsM, 1) : Manage(ds, us, {})

ManageFailing ==
    \E d \in DatabaseDeclsM, u \in { x \in UserDeclsM : x.Grants # <<>> },
       k \in {"CREATE_DATABASE", "GRANT"} :
        Manage(<<d>>, <<u>>, {k})

NextManage == ManageAny \/ ManageFailing

SpecManage == InitManage /\ [][NextManage]_vars

(***************************************************************************)
(* SpecOrder: Manage of two users and up to two databases.                 *)
(***************************************************************************)

DatabaseGrant(database) == Grant(database, "", "", "", "", <<"CONNECT">>, FALSE)

\* Each user with two grants: one on its database and one on its tables.
AppUser == User("app", "p1", NoOptions, <<DatabaseGrant("appdb"), TableGrant("*", <<"SELECT">>)>>, <<>>)
OpsUser == User("ops", "", NoOptions, <<DatabaseGrant("opsdb")>>, <<>>)

UsersO == { <<AppUser, OpsUser>>, <<OpsUser, AppUser>>, <<AppUser>> }

DatabasesO ==
    { <<Database("appdb", "app", <<>>), Database("opsdb", "ops", <<>>)>>,
      <<Database("opsdb", "", <<>>), Database("appdb", "", <<>>)>>,
      <<Database("appdb", "ops", <<>>)>> }

InitOrder ==
    /\ cat = FreshCatalog
    /\ last \in { NoOperation(b) : b \in GoVersions }

ManageAll == \E ds \in DatabasesO, us \in UsersO : Manage(ds, us, {})

ManageAllFailing ==
    \E ds \in DatabasesO, us \in UsersO, k \in {"CREATE_DATABASE", "GRANT"} : Manage(ds, us, {k})

NextOrder == ManageAll \/ ManageAllFailing

SpecOrder == InitOrder /\ [][NextOrder]_vars

(***************************************************************************)
(* SpecScope: GrantPermissions of one Grant, over every combination of     *)
(* database, schema, table, sequence and parameter being set or not.       *)
(***************************************************************************)

ScopeChoices ==
    { Grant(d, s, tb, sq, pa, <<p>>, FALSE) :
        d \in {"", "appdb"}, s \in {"", "public"}, tb \in {"", "t1"}, sq \in {"", "s1"},
        pa \in {"", "session_replication_role"},
        p \in {"SELECT", "CONNECT", "SET"} }

UserDeclsS == { User("app", "", NoOptions, <<g>>, <<>>) : g \in ScopeChoices }

InitScope ==
    /\ cat = SeededCatalog
    /\ last = [NoOperation("go1.22") EXCEPT !.pre = SeededCatalog]   \* no operation here reads the build

GrantScoped == \E u \in UserDeclsS : GrantPermissions(u, {})

GrantScopedFailing ==
    \E u \in { d \in UserDeclsS : d.Grants[1].Privileges = <<"SELECT">> } :
        GrantPermissions(u, {"GRANT"})

NextScope == GrantScoped \/ GrantScopedFailing

SpecScope == InitScope /\ [][NextScope]_vars

(***************************************************************************)
(* SpecMember: addRole, removeRole and getRoles on their own, over every   *)
(* pair of names, on a server that has the roles app, Dev and ops.         *)
(***************************************************************************)

\* The names the membership functions are called with; ghost does not exist.
MemberNames == {"app", "Dev", "ops", "ghost"}

\* The arguments, as `last` records them: the member, and the group as its one role.
Membership(username, role) == <<User(username, "", NoOptions, <<>>, <<role>>)>>

AddRole(username, role, faults) ==
    \E r \in {addRole(Start(cat), username, role, faults)} :
        /\ cat' = r.cat
        /\ last' = Record("addRole", Membership(username, role), <<>>, faults, r, 1)

RemoveRole(username, role, faults) ==
    \E r \in {removeRole(Start(cat), username, role, faults)} :
        /\ cat' = r.cat
        /\ last' = Record("removeRole", Membership(username, role), <<>>, faults, r, 1)

GetRoles(username) ==
    \E r \in {getRoles(Start(cat), username)} :
        /\ cat' = r.m.cat
        /\ last' = Record("getRoles", Membership(username, ""), <<>>, {}, r.m, 1)

InitMember ==
    /\ cat = SeededCatalog
    /\ last = [NoOperation("go1.22") EXCEPT !.pre = SeededCatalog]   \* no operation here reads the build

AddAnyRole ==
    \E u \in MemberNames, g \in MemberNames, f \in {{}, {"GRANT_ROLE"}} : AddRole(u, g, f)

RemoveAnyRole ==
    \E u \in MemberNames, g \in MemberNames, f \in {{}, {"REVOKE_ROLE"}} : RemoveRole(u, g, f)

GetAnyRoles == \E u \in MemberNames : GetRoles(u)

NextMember == AddAnyRole \/ RemoveAnyRole \/ GetAnyRoles

SpecMember == InitMember /\ [][NextMember]_vars

(***************************************************************************)
(* SpecPermissions: GrantPermissions of privileges and memberships         *)
(* together, to one user.                                                  *)
(***************************************************************************)

GrantChoicesP == { DatabaseGrant("appdb"), TableGrant("t1", <<"SELECT">>) }

\* The declared roles: none, one, and both in either order.
RoleChoicesP == { <<>>, <<"ops">>, <<"Dev">>, <<"ops", "Dev">>, <<"Dev", "ops">> }

UserDeclsP ==
    { User("app", "", NoOptions, gs, rs) :
        gs \in SeqsUpTo(GrantChoicesP, MaxGrants), rs \in RoleChoicesP }

InitPermissions ==
    /\ cat = SeededCatalog
    /\ last = [NoOperation("go1.22") EXCEPT !.pre = SeededCatalog]   \* no operation here reads the build

GrantAll == \E u \in UserDeclsP : GrantPermissions(u, {})

GrantAllFailing ==
    \/ \E u \in UserDeclsP : GrantPermissions(u, {"GRANT"})
    \/ \E u \in { d \in UserDeclsP : Len(d.Grants) = 1 }, k \in {"GRANT_ROLE", "REVOKE_ROLE"} :
          GrantPermissions(u, {k})

NextPermissions == GrantAll \/ GrantAllFailing

SpecPermissions == InitPermissions /\ [][NextPermissions]_vars

(***************************************************************************)
(* SpecEngine: CreateUser, CreateDatabase, GrantPermissions and Manage in  *)
(* any order, on a fresh server.                                           *)
(***************************************************************************)

UserDeclsE ==
    { User("app", "", NoOptions, gs, rs) :
        gs \in {<<>>, <<DatabaseGrant("appdb")>>}, rs \in {<<>>, <<"ops">>} }
    \cup { User("ops", "", NoOptions, <<>>, <<>>) }

DatabaseDeclsE ==
    { Database("appdb", o, ps) :
        o \in {"", "ops"},
        ps \in {<<>>, <<DefaultPrivilege("ops", "public", <<"SELECT">>, "TABLES", "app", FALSE)>>} }

InitEngine ==
    /\ cat = FreshCatalog
    /\ last = NoOperation("go1.22")     \* no declaration here has two rules, none depends on the build

CreateUserE == \E u \in UserDeclsE : CreateUser(u, {})

CreateDatabaseE == \E d \in DatabaseDeclsE, f \in {{}, {"REVOKE_ROLE"}} : CreateDatabase(d, f)

GrantPermissionsE == \E u \in UserDeclsE : GrantPermissions(u, {})

ManageE ==
    \E d \in DatabaseDeclsE, u \in { x \in UserDeclsE : x.Grants # <<>> } : Manage(<<d>>, <<u>>, {})

NextEngine == CreateUserE \/ CreateDatabaseE \/ GrantPermissionsE \/ ManageE

SpecEngine == InitEngine /\ [][NextEngine]_vars

(***************************************************************************)
(* SpecLookup: the catalog lookups on their own, for names that have a row *)
(* and names that have none, on a server that has the roles app, Dev and   *)
(* ops and the database appdb.                                             *)
(***************************************************************************)

\* The database names the lookups are called with; only appdb exists.
LookupDbs == {"appdb", "AppDb", "opsdb"}

UserExists(name) ==
    \E r \in {userExists(Start(cat), name)} :
        /\ cat' = r.m.cat
        /\ last' = Record("userExists", Membership(name, ""), <<>>, {}, r.m, 1)

GetUser(name) ==
    \E r \in {getUser(Start(cat), name)} :
        /\ cat' = r.m.cat
        /\ last' = Record("getUser", Membership(name, ""), <<>>, {}, r.m, 1)

HasRole(username, role) ==
    \E r \in {hasRole(Start(cat), username, role)} :
        /\ cat' = r.m.cat
        /\ last' = Record("hasRole", Membership(username, role), <<>>, {}, r.m, 1)

DatabaseExists(name) ==
    \E r \in {databaseExists(Start(cat), name)} :
        /\ cat' = r.m.cat
        /\ last' = Record("databaseExists", <<>>, <<Database(name, "", <<>>)>>, {}, r.m, 1)

GetDatabaseOwner(database) ==
    \E r \in {getDatabaseOwner(Start(cat), database)} :
        /\ cat' = r.m.cat
        /\ last' = Record("getDatabaseOwner", <<>>, <<Database(database, "", <<>>)>>, {}, r.m, 1)

InitLookup ==
    /\ cat = SeededCatalog
    /\ last = [NoOperation("go1.22") EXCEPT !.pre = SeededCatalog]   \* no operation here reads the build

LookupUser == \E n \in MemberNames : UserExists(n)

LookupAttributes == \E n \in MemberNames : GetUser(n)

LookupMembership == \E u \in MemberNames, g \in MemberNames : HasRole(u, g)

LookupRoles == \E u \in MemberNames : GetRoles(u)

LookupDatabase == \E d \in LookupDbs : DatabaseExists(d)

LookupOwner == \E d \in LookupDbs : GetDatabaseOwner(d)

\* Memberships come and go between the lookups.
JoinRole == \E u \in {"app", "Dev"}, g \in {"ops", "app"} : AddRole(u, g, {})

LeaveRole == \E u \in {"app", "Dev"}, g \in {"ops", "app"} : RemoveRole(u, g, {})

NextLookup ==
    \/ LookupUser \/ LookupAttributes \/ LookupMembership \/ LookupRoles
    \/ LookupDatabase \/ LookupOwner \/ JoinRole \/ LeaveRole

SpecLookup == InitLookup /\ [][NextLookup]_vars

(***************************************************************************)
(* SpecOption: GrantPermissions of one Grant of each scope, and            *)
(* CreateDatabase with one default-privilege rule, declared with and       *)
(* without with_grant; and Grants whose privilege list is empty.           *)
(***************************************************************************)

\* One Grant per scope: database, schema, table, sequence, server parameter.
ScopedGrants(privileges, withGrant) ==
    { Grant("appdb", "", "", "", "", privileges.database, withGrant),
      Grant("appdb", "public", "", "", "", privileges.schema, withGrant),
      Grant("appdb", "public", "t1", "", "", privileges.table, withGrant),
      Grant("appdb", "public", "", "s1", "", privileges.sequence, withGrant),
      Grant("", "", "", "", "session_replication_role", privileges.parameter, withGrant) }

\* A privilege of each class.
OnePrivilege ==
    [database |-> <<"CONNECT">>, schema |-> <<"USAGE">>, table |-> <<"SELECT">>,
     sequence |-> <<"USAGE">>, parameter |-> <<"SET">>]

NoPrivilege ==
    [database |-> <<>>, schema |-> <<>>, table |-> <<>>, sequence |-> <<>>, parameter |-> <<>>]

UserDeclsW ==
    { User("app", "", NoOptions, <<g>>, <<>>) :
        g \in ScopedGrants(OnePrivilege, FALSE) \cup ScopedGrants(OnePrivilege, TRUE) }

\* Grants without a privilege: one per scope, the wildcards, and no scope at all.
UserDeclsZ ==
    { User("app", "", NoOptions, <<g>>, <<>>) :
        g \in ScopedGrants(NoPrivilege, FALSE)
              \cup { TableGrant("*", <<>>), SequenceGrant("*", <<>>),
                     Grant("", "", "", "", "", <<>>, FALSE) } }

DatabaseDeclsW ==
    { Database("appdb", "",
               <<DefaultPrivilege("ops", "public", <<"SELECT">>, "TABLES", "app", w)>>) :
        w \in BOOLEAN }

InitOption ==
    /\ cat = SeededCatalog
    /\ last = [NoOperation("go1.22") EXCEPT !.pre = SeededCatalog]   \* one rule: nothing depends on the build

GrantWithOption == \E u \in UserDeclsW : GrantPermissions(u, {})

GrantNothing == \E u \in UserDeclsZ : GrantPermissions(u, {})

DefaultWithOption == \E d \in DatabaseDeclsW : CreateDatabase(d, {})

NextOption == GrantWithOption \/ GrantNothing \/ DefaultWithOption

SpecOption == InitOption /\ [][NextOption]_vars

(***************************************************************************)
(* SpecElevation: CreateDatabase on a server where the operating principal *)
(* may already be a member of the role it elevates to.                     *)
(***************************************************************************)

\* Databases appdb (present) and opsdb (absent), with owner ops or none, and
\* with or without a rule whose acting role is ops.
DatabaseDeclsV ==
    { Database(n, o, ps) :
        n \in {"appdb", "opsdb"}, o \in {"", "ops"},
        ps \in {<<>>, <<DefaultPrivilege("ops", "public", <<"SELECT">>, "TABLES", "app", FALSE)>>} }

\* The server as seeded, or with the operating principal added to role ops.
InitElevation ==
    /\ cat \in {SeededCatalog, addRole(Start(SeededCatalog), AdminUser, "ops", {}).cat}
    /\ last = [NoOperation("go1.22") EXCEPT !.pre = cat]   \* one rule: nothing depends on the build

CreateElevated == \E d \in DatabaseDeclsV : CreateDatabase(d, {})

\* The operating principal is made a member of ops (again).
JoinOwner == AddRole(AdminUser, "ops", {})

NextElevation == CreateElevated \/ JoinOwner

SpecElevation == InitElevation /\ [][NextElevation]_vars

(***************************************************************************)
(* SpecMysql: the MySQL engine on a fresh MySQL server.                    *)
(***************************************************************************)

MysqlCreateUser(user, faults) ==
    \E r \in {mysqlManager_CreateUser(Start(cat), user, faults)} :
        /\ cat' = r.cat
        /\ last' = Record("mysql.CreateUser", <<user>>, <<>>, faults, r, 1)

MysqlCreateDatabase(database, faults) ==
    \E r \in {mysqlManager_CreateDatabase(Start(cat), database, faults)} :
        /\ cat' = r.cat
        /\ last' = Record("mysql.CreateDatabase", <<>>, <<database>>, faults, r, 1)

MysqlManage(databases, users, faults) ==
    \E r \in {mysqlManager_Manage(Start(cat), databases, users, faults)} :
        /\ cat' = r.cat
        /\ last' = Record("mysql.Manage", users, databases, faults, r, 1)

MysqlGrant(database) == Grant(database, "", "", "", "", <<"SELECT">>, FALSE)

MysqlUserDecls ==
    { User(n, p, NoOptions, <<>>, <<>>) : n \in MysqlUsers, p \in {""} \cup Passwords }

MysqlDatabaseDecls == { Database(d, "", <<>>) : d \in MysqlDbs }

\* What Manage is given: one or two databases and two users with a grant each.
MysqlManaged ==
    { <<ds, <<User("app", p, NoOptions, <<MysqlGrant("appdb")>>, <<>>),
              User("ops", "p1", NoOptions, <<MysqlGrant("AppDb")>>, <<>>)>>>> :
        ds \in {<<Database("appdb", "", <<>>)>>,
                <<Database("appdb", "", <<>>), Database("AppDb", "", <<>>)>>},
        p \in {"", "p1"} }

InitMysql ==
    /\ cat = MysqlFreshCatalog
    /\ last = [NoOperation("go1.22") EXCEPT !.pre = MysqlFreshCatalog]

MysqlCreateAnyUser ==
    \E u \in MysqlUserDecls, f \in {{}, {"CREATE_ROLE"}, {"SET_PASSWORD"}} : MysqlCreateUser(u, f)

MysqlCreateAnyDatabase ==
    \E d \in MysqlDatabaseDecls, f \in {{}, {"CREATE_DATABASE"}} : MysqlCreateDatabase(d, f)

MysqlManageAny ==
    \E x \in MysqlManaged, f \in {{}, {"CREATE_DATABASE"}, {"CREATE_ROLE"}, {"GRANT"}} :
        MysqlManage(x[1], x[2], f)

NextMysql == MysqlCreateAnyUser \/ MysqlCreateAnyDatabase \/ MysqlManageAny

SpecMysql == InitMysql /\ [][NextMysql]_vars

(***************************************************************************)
(* SpecAbsent: GrantPermissions of either engine, for users that exist and *)
(* users that do not, on a server of that engine.                          *)
(***************************************************************************)

\* New(engine): the manager is the one of the server's engine.  A MySQL
\* server is the one with the root account.
EngineOf(c) == IF MysqlAdminUser \in c.roles THEN "mysql" ELSE "postgres"

MysqlGrantPermissions(user, faults) ==
    \E r \in {mysqlManager_GrantPermissions(Start(cat), user, faults)} :
        /\ cat' = r.cat
        /\ last' = Record("mysql.GrantPermissions", <<user>>, <<>>, faults, r, 1)

\* Users with and without grants and roles.  On the PostgreSQL server app
\* exists and ghost does not; on the MySQL server neither exists at first.
UserDeclsA ==
    { User(n, "", NoOptions, gs, rs) :
        n \in {"app", "ghost"},
        gs \in {<<>>, <<DatabaseGrant("appdb")>>, <<TableGrant("t1", <<"SELECT">>)>>},
        rs \in {<<>>, <<"ops">>} }

MysqlUserDeclsA ==
    { User(n, "", NoOptions, gs, <<>>) :
        n \in MysqlUsers, gs \in {<<>>, <<MysqlGrant("appdb")>>, <<MysqlGrant("AppDb")>>} }

InitAbsent ==
    /\ cat \in {SeededCatalog, MysqlFreshCatalog}
    /\ last = [NoOperation("go1.22") EXCEPT !.pre = cat]   \* no operation here reads the build

GrantAbsent ==
    /\ EngineOf(cat) = "postgres"
    /\ \E u \in UserDeclsA, f \in {{}, {"GRANT"}, {"GRANT_ROLE"}} : GrantPermissions(u, f)

CreateAbsent ==
    /\ EngineOf(cat) = "postgres"
    /\ CreateUser(User("ghost", "", NoOptions, <<>>, <<>>), {})

MysqlGrantAbsent ==
    /\ EngineOf(cat) = "mysql"
    /\ \E u \in MysqlUserDeclsA, f \in {{}, {"GRANT"}} : MysqlGrantPermissions(u, f)

MysqlCreateAbsent ==
    /\ EngineOf(cat) = "mysql"
    /\ \E n \in MysqlUsers : MysqlCreateUser(User(n, "p1", NoOptions, <<>>, <<>>), {})

NextAbsent == GrantAbsent \/ CreateAbsent \/ MysqlGrantAbsent \/ MysqlCreateAbsent

SpecAbsent == InitAbsent /\ [][NextAbsent]_vars

(***************************************************************************)
(* Properties.                                                             *)
(***************************************************************************)

\* The statements of kind k in a log.
Of(log, k) == { i \in 1..Len(log) : log[i].k = k }

\* The seven options: the attribute, its enabling and its negating clause.
OptionTable ==
    { <<"Login", "LOGIN", "NOLOGIN">>,
      <<"Superuser", "SUPERUSER", "NOSUPERUSER">>,
      <<"CreateRole", "CREATEROLE", "NOCREATEROLE">>,
      <<"CreateDatabase", "CREATEDB", "NOCREATEDB">>,
      <<"Inherit", "INHERIT", "NOINHERIT">>,
      <<"Replication", "REPLICATION", "NOREPLICATION">>,
      <<"BypassRLS", "BYPASSRLS", "NOBYPASSRLS">> }

\* The object a declared Grant is about.
DeclaredObject(g) ==
    CASE g.Database = "" -> Obj("parameter", "", "", g.Parameter)
      [] g.Database # "" /\ g.Table # "" -> Obj("table", g.Database, g.Schema, g.Table)
      [] g.Database # "" /\ g.Table = "" /\ g.Sequence # "" ->
            Obj("sequence", g.Database, g.Schema, g.Sequence)
      [] g.Database # "" /\ g.Table = "" /\ g.Sequence = "" /\ g.Schema # "" ->
            Obj("schema", g.Database, g.Schema, "")
      [] OTHER -> Obj("database", "", "", g.Database)

IsWildcard(g) == g.Table = "*" \/ g.Sequence = "*"

\* Every privilege the Grant asks for is held by the user in catalog c.
HoldsAll(c, username, g) ==
    \A p \in GrantedPrivileges(DeclaredObject(g).class, g.Privileges) :
        Holds(c, username, DeclaredObject(g), p)

\* The last operation was GrantPermissions, with no injected failure, for a
\* user that existed.
GrantedExisting ==
    /\ last.op = "GrantPermissions"
    /\ last.faults = {}
    /\ last.users[1].Name \in last.pre.roles

\* The groups r is a direct member of in catalog c.
DirectGroups(c, r) == { p[2] : p \in { q \in c.member : q[1] = r } }

\* The roles a log's membership statements of kind k name for member r.
RolesIn(log, k, r) == { log[i].a : i \in { j \in Of(log, k) : log[j].b = r } }

\* C2: for an existing user with live memberships L and declared existing
\* roles D, a successful GrantPermissions executes a membership GRANT for
\* exactly D \ L, a REVOKE for exactly L \ D, and leaves the memberships D.
C2_MembershipSetDiff ==
    (/\ GrantedExisting
     /\ last.err = ""
     /\ Range(last.users[1].Roles) \subseteq last.pre.roles) =>
        LET u == last.users[1].Name
            L == DirectGroups(last.pre, u)
            D == Range(last.users[1].Roles) \ {u}
        IN /\ RolesIn(last.log, "GRANT_ROLE", u) = D \ L
           /\ RolesIn(last.log, "REVOKE_ROLE", u) = L \ D
           /\ DirectGroups(cat, u) = D

\* C3: after a successful GrantPermissions for an existing user, the user
\* holds every privilege of every declared Grant on a concrete object.
C3_GrantedPrivilegesHeld ==
    (GrantedExisting /\ last.err = "") =>
        \A g \in Range(last.users[1].Grants) :
            ~IsWildcard(g) => HoldsAll(cat, last.users[1].Name, g)

\* The last operation was GrantPermissions, with no injected failure, of one
\* Grant on a concrete object to a user that existed.
GrantedOneConcrete ==
    /\ GrantedExisting
    /\ Len(last.users[1].Grants) = 1
    /\ ~IsWildcard(last.users[1].Grants[1])

\* C4: grantPermission on a concrete object executes no GRANT iff every
\* privilege of the list was already held, and otherwise exactly one GRANT,
\* naming the whole declared list.
C4_GrantIffNotHeld ==
    GrantedOneConcrete =>
        LET g == last.users[1].Grants[1]
            held == HoldsAll(last.pre, last.users[1].Name, g)
        IN /\ held <=> Of(last.log, "GRANT") = {}
           /\ ~held =>
                /\ Cardinality(Of(last.log, "GRANT")) = 1
                /\ \A i \in Of(last.log, "GRANT") : last.log[i].c = g.Privileges

\* C5: a Grant of ["ALL"] on a concrete object is skipped only when the user
\* holds every privilege GRANT ALL confers on the object's class, and "ALL"
\* itself is never the privilege of a privilege check.
C5_AllExpansion ==
    (GrantedOneConcrete /\ last.users[1].Grants[1].Privileges = <<"ALL">>) =>
        /\ Of(last.log, "GRANT") = {} =>
                HoldsAll(last.pre, last.users[1].Name, last.users[1].Grants[1])
        /\ \A i \in Of(last.log, "Q_HAS_PRIVILEGE") : last.log[i].c # <<"ALL">>

\* Where the n-th scoped connection of a log is opened (0: never).
RECURSIVE NthOpen(_, _, _)
NthOpen(log, n, from) ==
    IF from > Len(log) THEN 0
    ELSE IF log[from].k = "OPEN"
         THEN (IF n = 1 THEN from ELSE NthOpen(log, n - 1, from + 1))
         ELSE NthOpen(log, n, from + 1)

\* The log entries of the n-th scoped connection: from its OPEN to the next.
Segment(log, n) ==
    LET a == NthOpen(log, n, 1)
        b == NthOpen(log, n + 1, 1)
    IN IF a = 0 THEN {} ELSE { i \in a..Len(log) : b = 0 \/ i < b }

\* C6: a wildcard Grant (table "*" or sequence "*") that GrantPermissions
\* gets to has its GRANT ... ON ALL TABLES | SEQUENCES IN SCHEMA executed,
\* whatever the user holds, and no privilege check is made for it.
C6_WildcardAlwaysGranted ==
    (last.op = "GrantPermissions" /\ last.users[1].Name \in last.pre.roles) =>
        \A n \in 1..Len(last.users[1].Grants) :
            LET g == last.users[1].Grants[n]
                seg == Segment(last.log, n)
            IN (IsWildcard(g) /\ seg # {}) =>
                /\ \E i \in seg :
                      /\ last.log[i].k = "GRANT"
                      /\ last.log[i].o = DeclaredObject(g)
                      /\ last.log[i].c = g.Privileges
                      /\ last.log[i].a = last.users[1].Name
                /\ \A i \in seg : last.log[i].k # "Q_HAS_PRIVILEGE"

\* C6 witness: the user already held SELECT on every table of the schema and
\* the wildcard GRANT was executed again.
C6_Witness ==
    /\ GrantedExisting
    /\ last.users[1].Grants = <<TableGrant("*", <<"SELECT">>)>>
    /\ Holds(last.pre, last.users[1].Name, Obj("table", "appdb", "public", "t1"), "SELECT")
    /\ \E i \in Of(last.log, "GRANT") :
          last.log[i].o = Obj("table", "appdb", "public", "*") /\ last.log[i].ok

\* The statements of a log that change the catalog when they succeed.
Statements(log) == { i \in 1..Len(log) : log[i].k \in StatementKinds }

\* C1: when Manage is run again with the same declarations directly after a
\* successful run, the second run executes no statement other than
\* set-password statements and GRANTs of wildcard-scoped grants.
C1_SecondRunQuiet ==
    (last.op = "Manage" /\ last.run = 2) =>
        \A i \in Statements(last.log) :
            \/ last.log[i].k = "SET_PASSWORD"
            \/ last.log[i].k = "GRANT" /\ last.log[i].o.name = "*"

\* The membership statements of kind k in a log that name the operating
\* principal as member of `role`.
Elevations(log, k, role) ==
    { i \in Of(log, k) : log[i].a = role /\ log[i].b = AdminUser }

\* C7: in CreateDatabase, for every role the operating principal was not a
\* member of and was granted successfully, a REVOKE of that membership is
\* attempted afterwards, and when every such REVOKE succeeded the principal
\* is not a member of the role at the end.
C7_ElevationRevoked ==
    last.op = "CreateDatabase" =>
        \A role \in AllRoles :
            \A i \in Elevations(last.log, "GRANT_ROLE", role) :
                (last.log[i].ok /\ <<AdminUser, role>> \notin last.pre.member) =>
                    LET after == { j \in Elevations(last.log, "REVOKE_ROLE", role) : j > i }
                    IN /\ after # {}
                       /\ (\A j \in after : last.log[j].ok) => <<AdminUser, role>> \notin cat.member

\* The statements elevation wraps.
Wrapped == {"CREATE_DATABASE", "ALTER_DATABASE_OWNER", "ALTER_DEFAULT_PRIVILEGES"}

\* C8: CreateDatabase returns a wrapped statement's error exactly when that
\* statement failed, never the error of a REVOKE, and with only the REVOKE
\* failing it returns what it returns when nothing fails.
C8_ReturnIsWrappedResult ==
    last.op = "CreateDatabase" =>
        /\ \A i \in Statements(last.log) :
              (last.log[i].k \in Wrapped /\ ~last.log[i].ok) => last.err = last.log[i].k
        /\ last.err \in Wrapped =>
              \E i \in Of(last.log, last.err) : ~last.log[i].ok
        /\ last.err # "REVOKE_ROLE"
        /\ last.faults = {"REVOKE_ROLE"} =>
              last.err = CreateDatabaseOp(Start(last.pre), last.dbs[1], last.build, {}).err

\* C8 witness: a wrapped statement succeeded, the REVOKE after it failed,
\* and CreateDatabase returned success.
C8_Witness ==
    /\ last.op = "CreateDatabase"
    /\ last.err = ""
    /\ \E i \in Statements(last.log), j \in Of(last.log, "REVOKE_ROLE") :
          /\ i < j
          /\ last.log[i].k \in Wrapped /\ last.log[i].ok
          /\ ~last.log[j].ok

\* The last operation was CreateDatabase for a database that was absent,
\* with a declared owner that did not exist.
CreatedForMissingOwner ==
    /\ last.op = "CreateDatabase"
    /\ last.dbs[1].Name \notin last.pre.dbs
    /\ Unquoted(last.dbs[1].Name) \notin last.pre.dbs
    /\ last.dbs[1].Owner # ""
    /\ last.dbs[1].Owner \notin last.pre.roles

\* C9: CreateDatabase for an absent database whose declared owner does not
\* exist returns the owner-not-found error, having executed no statement at
\* all: no CREATE DATABASE, no membership GRANT or REVOKE, no ALTER DEFAULT
\* PRIVILEGES; no scoped connection is opened and the catalog is unchanged.
C9_MissingOwnerRejected ==
    CreatedForMissingOwner =>
        /\ last.err = "owner does not exist"
        /\ Statements(last.log) = {}
        /\ Of(last.log, "Q_HAS_ROLE") = {}
        /\ Of(last.log, "OPEN") = {}
        /\ last.dbs[1].Name \notin cat.dbs
        /\ cat = last.pre

\* C9 witness: owner ghost was looked up and not found, for a declaration
\* that carries default-privilege rules.
C9_Witness ==
    /\ CreatedForMissingOwner
    /\ last.dbs[1].DefaultPrivileges # <<>>
    /\ \E i \in Of(last.log, "Q_USER_EXISTS") : last.log[i].a = last.dbs[1].Owner
    /\ last.err = "owner does not exist"

\* The last operation was CreateUser on a role that was present.
UpdatedUser ==
    /\ last.op = "CreateUser"
    /\ last.users[1].Name \in last.pre.roles

\* C10: for a present role, CreateUser executes one update statement, which
\* holds for each of the seven options the enabling clause iff the option is
\* declared true and live false, the negating clause iff it is declared false
\* and live true, and so no clause for an option whose declared value is live.
C10_OptionDiffBidirectional ==
    UpdatedUser =>
        LET user == last.users[1]
            live == last.pre.opt[user.Name]
        IN /\ Cardinality(Of(last.log, "ALTER_ROLE")) = 1
           /\ \A i \in Of(last.log, "ALTER_ROLE") :
                \A t \in OptionTable :
                    /\ t[2] \in Range(last.log[i].c) <=> (user.Options[t[1]] /\ ~live[t[1]])
                    /\ t[3] \in Range(last.log[i].c) <=> (~user.Options[t[1]] /\ live[t[1]])

\* C10 witness: superuser=false was declared on a live superuser and NOSUPERUSER was sent.
C10_Witness ==
    /\ UpdatedUser
    /\ last.pre.opt[last.users[1].Name].Superuser
    /\ ~last.users[1].Options.Superuser
    /\ \E i \in Of(last.log, "ALTER_ROLE") :
          "NOSUPERUSER" \in Range(last.log[i].c) /\ last.log[i].ok
    /\ ~cat.opt[last.users[1].Name].Superuser

\* C11: after a successful CreateUser with a non-empty password the role's
\* credential is that password and a set-password statement was executed;
\* with an empty password no set-password statement is executed and the
\* credential of a role that existed is the one it had.
C11_PasswordAsserted ==
    (last.op = "CreateUser" /\ last.err = "") =>
        LET user == last.users[1] IN
        IF user.Password # ""
        THEN /\ cat.pw[user.Name] = user.Password
             /\ \E i \in Of(last.log, "SET_PASSWORD") :
                   last.log[i].a = user.Name /\ last.log[i].ok
        ELSE /\ Of(last.log, "SET_PASSWORD") = {}
             /\ user.Name \in last.pre.roles => cat.pw[user.Name] = last.pre.pw[user.Name]

\* C11 for passwords without a quote character in them.
C11_PlainPasswordAsserted ==
    (last.op = "CreateUser" /\ last.users[1].Password = StringLiteral(last.users[1].Password))
        => C11_PasswordAsserted

\* C11 for the MySQL engine, for passwords without a quote character in them.
C11_MysqlPasswordAsserted ==
    (/\ last.op = "mysql.CreateUser" /\ last.err = ""
     /\ last.users[1].Password = StringLiteral(last.users[1].Password)) =>
        LET user == last.users[1] IN
        IF user.Password # ""
        THEN /\ cat.pw[user.Name] = user.Password
             /\ \E i \in Of(last.log, "SET_PASSWORD") :
                   last.log[i].a = user.Name /\ last.log[i].ok
        ELSE /\ Of(last.log, "SET_PASSWORD") = {}
             /\ user.Name \in last.pre.roles => cat.pw[user.Name] = last.pre.pw[user.Name]

\* C12: CreateUser on an absent role executes exactly one CREATE statement,
\* which succeeds, and userExists with the same name is true afterwards;
\* CreateUser on a present role executes no CREATE statement and returns no
\* error: whatever the shape of the name.
C12_CreateOnceThenUpdate ==
    (last.op = "CreateUser" /\ last.faults = {}) =>
        LET name == last.users[1].Name IN
        IF name \notin last.pre.roles
        THEN /\ Cardinality(Of(last.log, "CREATE_ROLE")) = 1
             /\ \A i \in Of(last.log, "CREATE_ROLE") : last.log[i].a = name /\ last.log[i].ok
             /\ last.err = ""
             /\ userExists(Start(cat), name).v
        ELSE /\ Of(last.log, "CREATE_ROLE") = {}
             /\ last.err = ""

\* C12 witness: CreateUser on the present mixed-case role, the dashed role
\* being present as well, succeeded without a CREATE statement.
C12_Witness ==
    /\ last.op = "CreateUser" /\ last.faults = {}
    /\ last.users[1].Name = "Dev"
    /\ {"Dev", DashedName} \subseteq last.pre.roles
    /\ Of(last.log, "CREATE_ROLE") = {}
    /\ Of(last.log, "ALTER_ROLE") # {}
    /\ last.err = ""

\* C13: after a successful CreateUser with a non-empty password or with
\* login=true the role can log in, created or updated, whatever its
\* attributes were; a role created with no password and login=false cannot.
C13_LoginCapable ==
    (last.op = "CreateUser" /\ last.err = "") =>
        LET user == last.users[1] IN
        /\ (user.Password # "" \/ user.Options.Login) => cat.opt[user.Name].Login
        /\ (user.Name \notin last.pre.roles /\ user.Password = "" /\ ~user.Options.Login)
              => ~cat.opt[user.Name].Login

\* C13 witness: login=false with a password on a live role that could log
\* in: NOLOGIN was sent, the password was set, and the role can log in.
C13_Witness ==
    /\ UpdatedUser /\ last.err = ""
    /\ last.users[1].Password # "" /\ ~last.users[1].Options.Login
    /\ last.pre.opt[last.users[1].Name].Login
    /\ \E i \in Of(last.log, "ALTER_ROLE") : "NOLOGIN" \in Range(last.log[i].c)
    /\ cat.opt[last.users[1].Name].Login

\* The options other than login.
DeclaredAttributes ==
    {"Superuser", "CreateRole", "CreateDatabase", "Inherit", "Replication", "BypassRLS"}

\* C14: after a successful CreateUser, on an absent or a present role, the
\* live superuser, create-role, create-database, inherit, replication and
\* bypass-row-security attributes are the declared ones.
C14_AttributesAsDeclared ==
    (last.op = "CreateUser" /\ last.err = "") =>
        \A f \in DeclaredAttributes :
            cat.opt[last.users[1].Name][f] = last.users[1].Options[f]

\* C14 for a role that was present: the update leaves the declared attributes.
C14_UpdatedAttributesAsDeclared == UpdatedUser => C14_AttributesAsDeclared

\* C15: CreateDatabase on an absent database executes exactly one CREATE
\* DATABASE, which succeeds, returns no error, and databaseExists with the
\* same name is true afterwards; on a present database it executes no
\* CREATE DATABASE and returns no error: whatever the case of the name.
C15_CreateDatabaseOnce ==
    (last.op = "CreateDatabase" /\ last.faults = {}) =>
        LET name == last.dbs[1].Name IN
        IF name \notin last.pre.dbs
        THEN /\ Cardinality(Of(last.log, "CREATE_DATABASE")) = 1
             /\ \A i \in Of(last.log, "CREATE_DATABASE") : last.log[i].ok
             /\ last.err = ""
             /\ databaseExists(Start(cat), name).v
        ELSE /\ Of(last.log, "CREATE_DATABASE") = {}
             /\ last.err = ""

\* C15 for names without an upper-case letter.
C15_LowerCaseDatabaseOnce ==
    (last.op = "CreateDatabase" /\ last.dbs[1].Name = ToLower(last.dbs[1].Name))
        => C15_CreateDatabaseOnce

\* C15 for the MySQL engine.
C15_MysqlCreateDatabaseOnce ==
    (last.op = "mysql.CreateDatabase" /\ last.faults = {}) =>
        LET name == last.dbs[1].Name IN
        IF name \notin last.pre.dbs
        THEN /\ Cardinality(Of(last.log, "CREATE_DATABASE")) = 1
             /\ \A i \in Of(last.log, "CREATE_DATABASE") : last.log[i].ok
             /\ last.err = ""
             /\ mysqlManager_databaseExists(Start(cat), name).v
        ELSE /\ Of(last.log, "CREATE_DATABASE") = {}
             /\ last.err = ""

\* The log entries of createDatabase and updateDatabaseOwner: those before
\* the first scoped connection, which alterDefaultPrivileges opens.
BeforeConnect(log) ==
    LET open == NthOpen(log, 1, 1) IN { i \in 1..Len(log) : open = 0 \/ i < open }

\* The membership statements of createDatabase and updateDatabaseOwner.
OwnerElevations(log) ==
    { i \in BeforeConnect(log) : log[i].k \in {"GRANT_ROLE", "REVOKE_ROLE"} }

\* C16: after a successful CreateDatabase with a declared owner the live
\* owner is the declared one: a database that was absent is created with
\* that owner, one that had another owner has its ownership altered; and
\* when the live owner already is the declared one, no ALTER DATABASE ...
\* OWNER and no membership GRANT or REVOKE for the owner is executed.
C16_OwnerReconciled ==
    (last.op = "CreateDatabase" /\ last.dbs[1].Owner # "") =>
        LET d == last.dbs[1] IN
        /\ last.err = "" =>
              /\ cat.owner[d.Name] = d.Owner
              /\ d.Name \notin last.pre.dbs =>
                    \E i \in Of(last.log, "CREATE_DATABASE") :
                        last.log[i].b = d.Owner /\ last.log[i].ok
              /\ (d.Name \in last.pre.dbs /\ last.pre.owner[d.Name] # d.Owner) =>
                    \E i \in Of(last.log, "ALTER_DATABASE_OWNER") :
                        last.log[i].b = d.Owner /\ last.log[i].ok
        /\ (d.Name \in last.pre.dbs /\ last.pre.owner[d.Name] = d.Owner) =>
              /\ Of(last.log, "ALTER_DATABASE_OWNER") = {}
              /\ OwnerElevations(last.log) = {}

\* C16 witness: the database was owned by ops, Dev was declared, the
\* ownership was altered and Dev is the live owner.
C16_Witness ==
    /\ last.op = "CreateDatabase" /\ last.err = ""
    /\ last.dbs[1].Name \in last.pre.dbs
    /\ last.pre.owner[last.dbs[1].Name] = "ops"
    /\ last.dbs[1].Owner = "Dev"
    /\ \E i \in Of(last.log, "ALTER_DATABASE_OWNER") : last.log[i].ok
    /\ cat.owner[last.dbs[1].Name] = "Dev"

\* C17: CreateDatabase without a declared owner leaves the owner of every
\* existing database as it was, executes no ALTER DATABASE ... OWNER, and
\* executes no membership GRANT or REVOKE for an owner.
C17_NoOwnerNoChange ==
    (last.op = "CreateDatabase" /\ last.dbs[1].Owner = "") =>
        /\ \A d \in last.pre.dbs : cat.owner[d] = last.pre.owner[d]
        /\ Of(last.log, "ALTER_DATABASE_OWNER") = {}
        /\ OwnerElevations(last.log) = {}

\* C17 witness: the database existed and was owned by ops, no owner was
\* declared, default privileges were applied and ops still owns it.
C17_Witness ==
    /\ last.op = "CreateDatabase" /\ last.err = ""
    /\ last.dbs[1].Owner = ""
    /\ last.dbs[1].Name \in last.pre.dbs
    /\ last.pre.owner[last.dbs[1].Name] = "ops"
    /\ Of(last.log, "ALTER_DEFAULT_PRIVILEGES") # {}
    /\ cat.owner[last.dbs[1].Name] = "ops"

\* The last operation was CreateDatabase, with no injected failure, with
\* default-privilege rules, for a database that existed.
AppliedDefaults ==
    /\ last.op = "CreateDatabase"
    /\ last.faults = {}
    /\ last.dbs[1].Name \in last.pre.dbs
    /\ last.dbs[1].DefaultPrivileges # <<>>

\* The grantees of the rules of a declaration.
Grantees(database) ==
    { database.DefaultPrivileges[i].To : i \in 1..Len(database.DefaultPrivileges) }

\* C18: for a database that exists, CreateDatabase with a rule whose
\* grantee does not exist returns an error; with every grantee existing it
\* succeeds; and a call that repeats a successful one succeeds and leaves
\* the catalog as it was before the call.
C18_DefaultPrivilegeOrdering ==
    AppliedDefaults =>
        /\ ~(Grantees(last.dbs[1]) \subseteq last.pre.roles) => last.err # ""
        /\ Grantees(last.dbs[1]) \subseteq last.pre.roles => last.err = ""
        /\ last.run = 2 => (last.err = "" /\ cat = last.pre)

\* C18 witness: the grantee, absent at first, has been created, the rules
\* have been applied, and the repeated call applied them again and left the
\* catalog as it was.
C18_Witness ==
    /\ AppliedDefaults
    /\ last.run = 2
    /\ Grantees(last.dbs[1]) = {Grantee}
    /\ Grantee \notin FreshCatalog.roles /\ Grantee \in last.pre.roles
    /\ \E i \in Of(last.log, "ALTER_DEFAULT_PRIVILEGES") : last.log[i].ok
    /\ \E x \in last.pre.defp : x.to = Grantee
    /\ last.err = "" /\ cat = last.pre

\* The names the calls of an operation were made with, in the order of the log.
RECURSIVE CallsFrom(_, _, _)
CallsFrom(log, operation, i) ==
    IF i > Len(log) THEN <<>>
    ELSE (IF log[i].k = "CALL" /\ log[i].a = operation THEN <<log[i].b>> ELSE <<>>)
         \o CallsFrom(log, operation, i + 1)

Calls(log, operation) == CallsFrom(log, operation, 1)

\* Where the calls of an operation are in the log.
CallsAt(log, operation) == { i \in Of(log, "CALL") : log[i].a = operation }

\* s is the beginning of t, and all of it when the operation succeeded.
Begins(s, t, err) ==
    /\ Len(s) <= Len(t)
    /\ s = SubSeq(t, 1, Len(s))
    /\ err = "" => s = t

\* The user names of a declaration, and each repeated once per grant.
RECURSIVE NamesFrom(_, _, _)
NamesFrom(users, perGrant, i) ==
    IF i > Len(users) THEN <<>>
    ELSE [j \in 1..(IF perGrant THEN Len(users[i].Grants) ELSE 1) |-> users[i].Name]
         \o NamesFrom(users, perGrant, i + 1)

\* The statement kinds only CreateUser sends, and those only CreateDatabase sends.
UserKinds == {"CREATE_ROLE", "ALTER_ROLE", "SET_PASSWORD", "Q_GET_USER"}
DatabaseKinds ==
    {"CREATE_DATABASE", "ALTER_DATABASE_OWNER", "ALTER_DEFAULT_PRIVILEGES",
     "Q_DATABASE_EXISTS", "Q_GET_DATABASE_OWNER"}

\* C19: in Manage every CreateUser call, and every statement of it, comes
\* before the first CreateDatabase call, and every CreateDatabase call, and
\* every statement of it, before the first grant; the users, the databases
\* and the grants are each processed in declared order, all of them when
\* Manage succeeds.
C19_ManageOrder ==
    last.op = "Manage" =>
        LET log == last.log IN
        /\ \A i \in CallsAt(log, "CreateUser") \cup { j \in 1..Len(log) : log[j].k \in UserKinds } :
              \A j \in CallsAt(log, "CreateDatabase") \cup CallsAt(log, "GrantPermissions") : i < j
        /\ \A i \in CallsAt(log, "CreateDatabase")
                     \cup { j \in 1..Len(log) : log[j].k \in DatabaseKinds } :
              \A j \in CallsAt(log, "GrantPermissions") : i < j
        /\ \A i \in Of(log, "GRANT") \cup Of(log, "Q_HAS_PRIVILEGE") :
              \E j \in CallsAt(log, "GrantPermissions") : j < i
        /\ Begins(Calls(log, "CreateUser"), NamesFrom(last.users, FALSE, 1), last.err)
        /\ Begins(Calls(log, "CreateDatabase"),
                  [i \in 1..Len(last.dbs) |-> last.dbs[i].Name], last.err)
        /\ Begins(Calls(log, "GrantPermissions"), NamesFrom(last.users, TRUE, 1), last.err)
        /\ Calls(log, "CreateDatabase") # <<>> =>
              Calls(log, "CreateUser") = NamesFrom(last.users, FALSE, 1)
        /\ Calls(log, "GrantPermissions") # <<>> =>
              Calls(log, "CreateDatabase") = [i \in 1..Len(last.dbs) |-> last.dbs[i].Name]

\* C19 witness: Manage of two users and two databases owned by them
\* succeeded, with the roles and the databases created and the grants made.
C19_Witness ==
    /\ last.op = "Manage" /\ last.err = ""
    /\ Len(last.users) = 2 /\ Len(last.dbs) = 2
    /\ Cardinality(Of(last.log, "CREATE_ROLE")) = 2
    /\ Cardinality(Of(last.log, "CREATE_DATABASE")) = 2
    /\ \A i \in Of(last.log, "CREATE_DATABASE") : last.log[i].b # "" /\ last.log[i].ok
    /\ Cardinality({ i \in Of(last.log, "GRANT") : last.log[i].ok }) = 3

\* C20: in the MySQL engine's Manage every CreateUser call comes before the
\* first CreateDatabase call, and every CreateDatabase call before the
\* first grant.
C20_MysqlManageOrder ==
    last.op = "mysql.Manage" =>
        LET log == last.log IN
        /\ \A i \in CallsAt(log, "CreateUser") :
              \A j \in CallsAt(log, "CreateDatabase") \cup CallsAt(log, "GrantPermissions") : i < j
        /\ \A i \in CallsAt(log, "CreateDatabase") :
              \A j \in CallsAt(log, "GrantPermissions") : i < j

\* What the MySQL engine's Manage does keep: every database is created
\* before the first user is, and each user's grants follow its creation.
C20_MysqlDatabasesFirst ==
    last.op = "mysql.Manage" =>
        LET log == last.log IN
        /\ \A i \in CallsAt(log, "CreateDatabase") :
              \A j \in CallsAt(log, "CreateUser") \cup CallsAt(log, "GrantPermissions") : i < j
        /\ \A j \in CallsAt(log, "GrantPermissions") :
              j > 1 /\ \E i \in CallsAt(log, "CreateUser") : i < j /\ log[i].b = log[j].b

\* The log entry an error was returned for: the last statement, or scoped
\* connection, that failed with it; for an error no statement answered with,
\* the last entry of the log.
FailureKind(err) == IF err = "ping" THEN "OPEN" ELSE err

FailedAt(log, err) ==
    LET F == { i \in 1..Len(log) : log[i].k = FailureKind(err) /\ ~log[i].ok } IN
    IF F = {} THEN Len(log) ELSE CHOOSE i \in F : \A j \in F : j <= i

\* The roles a database declaration elevates to: its owner and its rules' acting roles.
ElevationRoles(database) ==
    {database.Owner}
    \cup { database.DefaultPrivileges[i].Role : i \in 1..Len(database.DefaultPrivileges) }

\* The step Manage was in at the end of a log: its last call (0: none).
LastCall(log) ==
    IF Of(log, "CALL") = {} THEN 0
    ELSE CHOOSE i \in Of(log, "CALL") : \A j \in Of(log, "CALL") : j <= i

\* What a statement that succeeded put in the catalog is in catalog c.
InPlace(c, s) ==
    CASE s.k = "CREATE_ROLE" -> s.a \in c.roles
      [] s.k = "SET_PASSWORD" -> c.pw[s.a] = StringLiteral(s.b2)
      [] s.k = "CREATE_DATABASE" -> Unquoted(s.a) \in c.dbs
      [] s.k = "ALTER_DATABASE_OWNER" -> c.owner[Unquoted(s.a)] = s.b
      [] s.k = "GRANT" ->
            \A t \in GrantTargets(c, s.o), p \in GrantedPrivileges(s.o.class, s.c) :
                [u |-> s.a, o |-> t, p |-> p] \in c.privs
      [] s.k = "ALTER_DEFAULT_PRIVILEGES" -> \E x \in c.defp : x.to = s.b /\ x.o = s.o
      [] OTHER -> TRUE

C21_MysqlManageAborts ==
    (last.op = "mysql.Manage" /\ last.err # "") =>
        /\ FailedAt(last.log, last.err) = Len(last.log)
        /\ ~last.log[Len(last.log)].ok
        /\ \A i \in 1..(Len(last.log) - 1) :
              /\ last.log[i].ok
              /\ last.log[i].k = "CREATE_ROLE" => last.log[i].a \in cat.roles
              /\ last.log[i].k = "CREATE_DATABASE" => last.log[i].a \in cat.dbs
        /\ last.pre.roles \subseteq cat.roles /\ last.pre.dbs \subseteq cat.dbs

\* The scoped connection opened at entry i of a log is closed at entry j:
\* the same database, and no other connection opened in between.
ClosedAt(log, i, j) ==
    /\ i < j /\ log[j].k = "CLOSE" /\ log[j].a = log[i].a
    /\ \A n \in (i + 1)..(j - 1) : log[n].k \notin {"OPEN", "CALL"}

\* C22: every scoped connection an operation opened, its ping failed or
\* not, is closed before the function that opened it returns: before the
\* next connection is opened, the next step is called, or the operation ends.
C22_ScopedConnectionsClosed ==
    \A i \in Of(last.log, "OPEN") : \E j \in Of(last.log, "CLOSE") : ClosedAt(last.log, i, j)

\* What does hold: every scoped connection whose ping succeeded is closed
\* before the function that opened it returns.
C22_ConnectedClosed ==
    \A i \in Of(last.log, "OPEN") :
        last.log[i].ok => \E j \in Of(last.log, "CLOSE") : ClosedAt(last.log, i, j)

\* The five scopes of a Grant: a database, a schema of a database, a table
\* or a sequence of a schema, and a server parameter.
SupportedScope(g) ==
    \/ g.Database # "" /\ g.Schema = "" /\ g.Table = "" /\ g.Sequence = "" /\ g.Parameter = ""
    \/ g.Database # "" /\ g.Schema # "" /\ g.Table = "" /\ g.Sequence = "" /\ g.Parameter = ""
    \/ g.Database # "" /\ g.Schema # "" /\ g.Table # "" /\ g.Sequence = "" /\ g.Parameter = ""
    \/ g.Database # "" /\ g.Schema # "" /\ g.Table = "" /\ g.Sequence # "" /\ g.Parameter = ""
    \/ g.Database = "" /\ g.Schema = "" /\ g.Table = "" /\ g.Sequence = "" /\ g.Parameter # ""

\* The last operation was GrantPermissions, with no injected failure, of one
\* Grant to a user that existed.
GrantedOne ==
    /\ GrantedExisting
    /\ Len(last.users[1].Grants) = 1

\* The Grant was rejected: the invalid-grant error, no privilege check, no GRANT.
Rejected ==
    /\ last.err = "invalid grant options"
    /\ Of(last.log, "Q_HAS_PRIVILEGE") = {}
    /\ Of(last.log, "GRANT") = {}

\* C23: grantPermission rejects a Grant exactly when its scope is none of
\* the five supported ones, and a Grant of a supported scope is checked and
\* granted on the one object it names.
C23_ScopeValidated ==
    GrantedOne =>
        LET g == last.users[1].Grants[1] IN
        /\ Rejected <=> ~SupportedScope(g)
        /\ SupportedScope(g) =>
              \A i \in Of(last.log, "Q_HAS_PRIVILEGE") \cup Of(last.log, "GRANT") :
                  last.log[i].o = DeclaredObject(g)

\* What grantPermission does reject: a Grant with neither a database nor a parameter.
C23_RejectedWithoutDatabaseAndParameter ==
    GrantedOne =>
        (Rejected <=> (last.users[1].Grants[1].Database = "" /\ last.users[1].Grants[1].Parameter = ""))

\* A Grant naming a table and a sequence is checked on the table and granted on the sequence.
C23_TableAndSequence ==
    (GrantedOne /\ last.users[1].Grants[1].Database # "" /\ last.users[1].Grants[1].Schema # ""
       /\ last.users[1].Grants[1].Table # "" /\ last.users[1].Grants[1].Sequence # "") =>
        /\ \A i \in Of(last.log, "Q_HAS_PRIVILEGE") : last.log[i].o.class = "table"
        /\ \A i \in Of(last.log, "GRANT") : last.log[i].o.class = "sequence"
        /\ ~Rejected

\* The entries of kind k of a log, in the order of the log.
RECURSIVE EntriesFrom(_, _, _)
EntriesFrom(log, k, i) ==
    IF i > Len(log) THEN <<>>
    ELSE (IF log[i].k = k THEN <<log[i]>> ELSE <<>>) \o EntriesFrom(log, k, i + 1)

\* The ALTER DEFAULT PRIVILEGES statements of a declaration, one per rule, in declared order.
RuleStatements(database) ==
    [ i \in 1..Len(database.DefaultPrivileges) |->
        alterDefaultPrivilegeQuery(database.Name, database.DefaultPrivileges[i]) ]

\* Every ALTER DEFAULT PRIVILEGES statement of the log was executed on a
\* connection scoped to the database, and after the owner was reconciled.
ScopedAfterOwner(log, database) ==
    \A i \in Of(log, "ALTER_DEFAULT_PRIVILEGES") :
        /\ \E a \in Of(log, "OPEN") :
              /\ a < i /\ log[a].a = database /\ log[a].ok
              /\ \A n \in (a + 1)..i : log[n].k \notin {"OPEN", "CLOSE"}
        /\ \A j \in Of(log, "CREATE_DATABASE") \cup Of(log, "ALTER_DATABASE_OWNER")
                     \cup Of(log, "Q_GET_DATABASE_OWNER") : j < i

\* C24: a successful CreateDatabase executes exactly one ALTER DEFAULT
\* PRIVILEGES statement per declared rule, in declared order, each on a
\* connection scoped to the database and after owner reconciliation.
C24_OneStatementPerRule ==
    (last.op = "CreateDatabase" /\ last.err = "") =>
        /\ EntriesFrom(last.log, "ALTER_DEFAULT_PRIVILEGES", 1) = RuleStatements(last.dbs[1])
        /\ ScopedAfterOwner(last.log, last.dbs[1].Name)

\* What a successful CreateDatabase does execute: the statements of the
\* rules in declared order, and then all of them once more, all on
\* connections scoped to the database and after owner reconciliation.
C24_EachRuleTwice ==
    (last.op = "CreateDatabase" /\ last.err = "") =>
        /\ EntriesFrom(last.log, "ALTER_DEFAULT_PRIVILEGES", 1)
              = RuleStatements(last.dbs[1]) \o RuleStatements(last.dbs[1])
        /\ ScopedAfterOwner(last.log, last.dbs[1].Name)

\* The membership checks, GRANTs and REVOKEs of a log.
MembershipEntries(log) ==
    Of(log, "Q_HAS_ROLE") \cup Of(log, "GRANT_ROLE") \cup Of(log, "REVOKE_ROLE")

\* C25: the membership checks, GRANTs and REVOKEs of alterDefaultPrivileges
\* are those of the rules that name an acting role: none of them names the
\* empty role, and a declaration whose rules name no acting role has none.
C25_ElevationOnlyWithActingRole ==
    (last.op = "CreateDatabase" /\ last.dbs[1].Owner = "") =>
        /\ \A i \in MembershipEntries(last.log) : last.log[i].a # ""
        /\ (\A n \in 1..Len(last.dbs[1].DefaultPrivileges) :
                last.dbs[1].DefaultPrivileges[n].Role = "")
              => MembershipEntries(last.log) = {}

\* What alterDefaultPrivileges does: every rule's statement, whether the
\* rule names an acting role or not, comes directly after a membership
\* check for the rule's role, or after the GRANT that follows that check.
C25_EveryRuleElevated ==
    (last.op = "CreateDatabase" /\ last.dbs[1].Owner = "") =>
        \A i \in Of(last.log, "ALTER_DEFAULT_PRIVILEGES") :
            \E j \in Of(last.log, "Q_HAS_ROLE") :
                /\ j < i /\ i <= j + 2
                /\ last.log[j].a = ToLower(last.log[i].a) /\ last.log[j].b = AdminUser
                /\ i = j + 2 => last.log[j + 1].k = "GRANT_ROLE"

\* The entries of a log the server, or the driver, answered with an error.
Failed(log) == { i \in 1..Len(log) : ~log[i].ok }

\* C26: in CreateDatabase every statement that fails, other than the
\* REVOKE of an elevation, makes the call return an error; and when the
\* GRANT of an elevation fails, the call returns that error and the
\* statement the elevation was for is not executed.
C26_ErrorsPropagate ==
    last.op = "CreateDatabase" =>
        /\ \A i \in Failed(last.log) : last.log[i].k # "REVOKE_ROLE" => last.err # ""
        /\ \A i \in { n \in Failed(last.log) \cap Of(last.log, "GRANT_ROLE") :
                        last.log[n].b = AdminUser } :
              /\ last.err = "GRANT_ROLE"
              /\ \A j \in (i + 1)..Len(last.log) : last.log[j].k \notin Wrapped

\* What does hold: a failing statement other than a membership GRANT or
\* REVOKE makes the call return an error, and so does a failing elevation
\* GRANT of createDatabase or updateDatabaseOwner, after which no statement
\* is executed.
C26_ErrorsPropagateButElevation ==
    last.op = "CreateDatabase" =>
        /\ \A i \in Failed(last.log) :
              last.log[i].k \notin {"GRANT_ROLE", "REVOKE_ROLE"} => last.err # ""
        /\ \A i \in Failed(last.log) \cap BeforeConnect(last.log) :
              last.log[i].k = "GRANT_ROLE" =>
                  /\ last.err = "GRANT_ROLE"
                  /\ \A j \in (i + 1)..Len(last.log) : last.log[j].k \notin StatementKinds

\* The last operation was addRole or removeRole of a role to or from itself.
SelfMembership ==
    /\ last.op \in {"addRole", "removeRole"}
    /\ last.users[1].Roles = <<last.users[1].Name>>

\* C27: addRole(X, X) and removeRole(X, X) send nothing to the server,
\* return no error and leave the catalog as it was, whether role X exists
\* or not and whatever the driver would fail; and no role is a direct
\* member of itself.
C27_SelfMembershipSkipped ==
    /\ SelfMembership => (last.log = <<>> /\ last.err = "" /\ cat = last.pre)
    /\ \A r \in AllRoles : <<r, r>> \notin cat.member

\* C27 witness: removeRole(ghost, ghost), for a role that does not exist,
\* on a catalog that holds memberships, with the driver failing every
\* REVOKE: nothing was sent and no error returned.
C27_Witness ==
    /\ SelfMembership /\ last.op = "removeRole"
    /\ last.users[1].Name = "ghost" /\ "ghost" \notin last.pre.roles
    /\ last.faults = {"REVOKE_ROLE"}
    /\ last.pre.member # {}
    /\ last.log = <<>> /\ last.err = ""

\* The last operation was addRole or removeRole, with no injected failure,
\* of two different roles that exist.
MembershipOfExisting ==
    /\ last.op \in {"addRole", "removeRole"}
    /\ last.faults = {}
    /\ last.users[1].Name # last.users[1].Roles[1]
    /\ {last.users[1].Name, last.users[1].Roles[1]} \subseteq last.pre.roles

\* C30: for two different existing roles hasRole is true exactly when the
\* catalog holds the direct membership, so addRole executes GRANT exactly
\* when it is absent and removeRole executes REVOKE exactly when it is
\* present; and getRoles of an existing role returns exactly the groups it
\* directly belongs to.
C30_MembershipReadBack ==
    /\ MembershipOfExisting =>
          LET member == last.users[1].Name
              group == last.users[1].Roles[1]
              present == <<member, group>> \in last.pre.member
          IN /\ hasRole(Start(last.pre), member, group).v <=> present
             /\ last.op = "addRole" => (Of(last.log, "GRANT_ROLE") # {} <=> ~present)
             /\ last.op = "removeRole" => (Of(last.log, "REVOKE_ROLE") # {} <=> present)
    /\ (last.op = "getRoles" /\ last.users[1].Name \in last.pre.roles) =>
          Range(getRoles(Start(last.pre), last.users[1].Name).v)
              = DirectGroups(last.pre, last.users[1].Name)

\* C30 for names without an upper-case letter.
C30_LowerCaseMembershipReadBack ==
    (/\ last.op \in {"addRole", "removeRole", "getRoles"}
     /\ last.users[1].Name = ToLower(last.users[1].Name)
     /\ last.op # "getRoles" => last.users[1].Roles[1] = ToLower(last.users[1].Roles[1]))
        => C30_MembershipReadBack

\* The entries of the three phases of GrantPermissions: the grants with
\* their connections and checks, the additions with their checks, and the
\* removals, which begin with the listing of the live memberships.
GrantPhase(log) ==
    Of(log, "OPEN") \cup Of(log, "Q_HAS_PRIVILEGE") \cup Of(log, "GRANT") \cup Of(log, "CLOSE")

Listing(log) == IF Of(log, "Q_GET_ROLES") = {} THEN Len(log) + 1
                ELSE CHOOSE i \in Of(log, "Q_GET_ROLES") : TRUE

AddPhase(log) ==
    { i \in Of(log, "Q_HAS_ROLE") \cup Of(log, "GRANT_ROLE") : i < Listing(log) }

RemovePhase(log) ==
    { i \in 1..Len(log) : i >= Listing(log) }

\* The roles a member's membership checks of a phase were made for, in order.
RECURSIVE ChecksFrom(_, _, _)
ChecksFrom(log, upto, i) ==
    IF i > Len(log) \/ i >= upto THEN <<>>
    ELSE (IF log[i].k = "Q_HAS_ROLE" THEN <<log[i].a>> ELSE <<>>) \o ChecksFrom(log, upto, i + 1)

\* The declared roles other than the user itself, as hasRole asks for them.
RECURSIVE DeclaredChecks(_, _, _)
DeclaredChecks(username, roles, i) ==
    IF i > Len(roles) THEN <<>>
    ELSE (IF roles[i] = username THEN <<>> ELSE <<ToLower(roles[i])>>)
         \o DeclaredChecks(username, roles, i + 1)

\* C29: in one GrantPermissions call the grants come first, in declared
\* order, then the membership additions, in declared order, then the
\* removals, of roles that are not declared; the statement that fails is
\* the last one executed, so after a failing grant no membership is added
\* or removed.
C29_GrantsThenAddsThenRemoves ==
    (last.op = "GrantPermissions" /\ last.users[1].Name \in last.pre.roles) =>
        LET log == last.log
            user == last.users[1]
        IN /\ \A i \in GrantPhase(log), j \in AddPhase(log) \cup RemovePhase(log) : i < j
           /\ \A i \in AddPhase(log), j \in RemovePhase(log) : i < j
           /\ Cardinality(Of(log, "Q_GET_ROLES")) <= 1
           /\ \A j \in Of(log, "REVOKE_ROLE") :
                 j \in RemovePhase(log) /\ log[j].a \notin Range(user.Roles)
           /\ Cardinality(Of(log, "OPEN")) <= Len(user.Grants)
           /\ \A n \in 1..Len(user.Grants) :
                 \A i \in Segment(log, n) \cap (Of(log, "Q_HAS_PRIVILEGE") \cup Of(log, "GRANT")) :
                     log[i].o = DeclaredObject(user.Grants[n])
           /\ Begins(ChecksFrom(log, Listing(log), 1),
                     DeclaredChecks(user.Name, user.Roles, 1),
                     IF Of(log, "Q_GET_ROLES") # {} THEN "" ELSE last.err)
           /\ \A i \in Of(log, "GRANT_ROLE") :
                 i > 1 /\ log[i - 1].k = "Q_HAS_ROLE" /\ log[i - 1].a = ToLower(log[i].a)
           /\ (AddPhase(log) \cup RemovePhase(log) # {}) =>
                 Cardinality(Of(log, "OPEN")) = Len(user.Grants)
           /\ last.err # "" =>
                 /\ \A j \in (FailedAt(log, last.err) + 1)..Len(log) : log[j].k = "CLOSE"
                 /\ FailedAt(log, last.err) \in GrantPhase(log) =>
                       /\ AddPhase(log) \cup RemovePhase(log) = {}
                       /\ cat.member = last.pre.member

\* C29 witness: one call made a grant, added the user to Dev and removed
\* it from ops, which was live and not declared.
C29_Witness ==
    /\ last.op = "GrantPermissions" /\ last.err = ""
    /\ <<"app", "ops">> \in last.pre.member
    /\ \E i \in Of(last.log, "GRANT"), j \in Of(last.log, "GRANT_ROLE"),
          k \in Of(last.log, "REVOKE_ROLE") :
          /\ i < j /\ j < k
          /\ last.log[i].ok /\ last.log[j].ok /\ last.log[k].ok
          /\ last.log[j].a = "Dev" /\ last.log[k].a = "ops"
    /\ <<"app", "ops">> \notin cat.member

\* C28: no operation removes a role, a database, a privilege held, a grant
\* option or a default privilege that was in the catalog before it, and
\* every statement an operation sends is of one of the kinds that create,
\* alter or grant, or the REVOKE of a role membership.
C28_NothingDropped ==
    /\ last.pre.roles \subseteq cat.roles
    /\ last.pre.dbs \subseteq cat.dbs
    /\ last.pre.privs \subseteq cat.privs
    /\ last.pre.gopt \subseteq cat.gopt
    /\ last.pre.defp \subseteq cat.defp
    /\ \A i \in 1..Len(last.log) :
          \/ last.log[i].k \in StatementKinds
          \/ last.log[i].k \in {"CALL", "OPEN", "CLOSE", "Q_USER_EXISTS", "Q_GET_USER",
                                 "Q_GET_ROLES", "Q_HAS_ROLE", "Q_HAS_PRIVILEGE",
                                 "Q_DATABASE_EXISTS", "Q_GET_DATABASE_OWNER"}

\* C28 witness: GrantPermissions removed the user's membership in ops,
\* and the role ops, the database, and the privilege the user held on it
\* are all still there.
C28_Witness ==
    /\ last.op = "GrantPermissions" /\ last.err = ""
    /\ <<"app", "ops">> \in last.pre.member /\ <<"app", "ops">> \notin cat.member
    /\ \E i \in Of(last.log, "REVOKE_ROLE") : last.log[i].a = "ops" /\ last.log[i].ok
    /\ {"app", "ops"} \subseteq cat.roles /\ "appdb" \in cat.dbs
    /\ \E x \in last.pre.privs : x.u = "app"
    /\ last.pre.privs = cat.privs

\* The lookups, and those of them that treat "no row" as an answer.
Lookups == {"userExists", "getUser", "hasRole", "getRoles", "databaseExists", "getDatabaseOwner"}
TolerantLookups == {"userExists", "hasRole", "getRoles", "databaseExists"}

\* The query of the last lookup matched no row of the catalog it was put to.
NoMatchingRow ==
    CASE last.op \in {"userExists", "getUser"} -> last.users[1].Name \notin last.pre.roles
      [] last.op = "hasRole" ->
            /\ last.users[1].Name # last.users[1].Roles[1]
            /\ <<last.users[1].Name, ToLower(last.users[1].Roles[1])>> \notin last.pre.member
      [] last.op = "getRoles" -> DirectGroups(last.pre, ToLower(last.users[1].Name)) = {}
      [] last.op \in {"databaseExists", "getDatabaseOwner"} ->
            last.dbs[1].Name \notin last.pre.dbs
      [] OTHER -> FALSE

\* The value the last lookup returned is the empty one of its type.
EmptyResult ==
    CASE last.op = "userExists" -> ~userExists(Start(last.pre), last.users[1].Name).v
      [] last.op = "getUser" -> getUser(Start(last.pre), last.users[1].Name).v = NoOptions
      [] last.op = "hasRole" ->
            ~hasRole(Start(last.pre), last.users[1].Name, last.users[1].Roles[1]).v
      [] last.op = "getRoles" -> getRoles(Start(last.pre), last.users[1].Name).v = <<>>
      [] last.op = "databaseExists" -> ~databaseExists(Start(last.pre), last.dbs[1].Name).v
      [] last.op = "getDatabaseOwner" ->
            getDatabaseOwner(Start(last.pre), last.dbs[1].Name).v = ""
      [] OTHER -> FALSE

\* C31: each lookup (userExists, databaseExists, hasRole, getRoles,
\* getDatabaseOwner, getUser) whose query matches no row returns the empty
\* result of its type and no error.
C31_LookupsTolerateNoRow ==
    (last.op \in Lookups /\ NoMatchingRow) => (last.err = "" /\ EmptyResult)

\* C31 for the four lookups that compare the driver's error with sql.ErrNoRows.
C31_ExistenceLookupsTolerateNoRow ==
    last.op \in TolerantLookups => C31_LookupsTolerateNoRow

\* getUser and getDatabaseOwner return the driver's "no rows" error as it is.
C31_NoRowIsAnError ==
    (last.op \in {"getUser", "getDatabaseOwner"} /\ NoMatchingRow) => last.err = "no rows"

\* C32: every GRANT statement built for a Grant carries WITH GRANT OPTION
\* exactly when the Grant declares with_grant, whatever its scope, and every
\* ALTER DEFAULT PRIVILEGES statement carries it exactly when its rule does.
C32_GrantOptionAsDeclared ==
    /\ (last.op = "GrantPermissions" /\ Len(last.users[1].Grants) = 1) =>
          \A i \in Of(last.log, "GRANT") : last.log[i].w = last.users[1].Grants[1].WithGrant
    /\ (last.op = "CreateDatabase" /\ Len(last.dbs[1].DefaultPrivileges) = 1) =>
          \A i \in Of(last.log, "ALTER_DEFAULT_PRIVILEGES") :
              last.log[i].w = last.dbs[1].DefaultPrivileges[1].WithGrant

\* C32 for every scope but the server parameter.
C32_GrantOptionButParameter ==
    (last.op = "GrantPermissions" /\ Len(last.users[1].Grants) = 1
        /\ last.users[1].Grants[1].Parameter # "" /\ last.users[1].Grants[1].Database = "")
    \/ C32_GrantOptionAsDeclared

\* The clause is there for every other scope: a GRANT with it was built for a
\* database, a schema, a table and a sequence, and an ALTER DEFAULT PRIVILEGES too.
C32_ClauseBuilt ==
    \/ /\ last.op = "GrantPermissions"
       /\ last.users[1].Grants[1].WithGrant
       /\ last.users[1].Grants[1].Schema # ""
       /\ \E i \in Of(last.log, "GRANT") : last.log[i].w
    \/ /\ last.op = "CreateDatabase"
       /\ \E i \in Of(last.log, "ALTER_DEFAULT_PRIVILEGES") : last.log[i].w /\ last.log[i].ok

\* The last operation was CreateUser on a present role whose live options
\* were all as declared.
UpdatedUnchangedUser ==
    /\ UpdatedUser
    /\ last.faults = {}
    /\ last.pre.opt[last.users[1].Name] = last.users[1].Options

\* C33: CreateUser for a present role whose live options all equal the
\* declared ones executes no ALTER USER statement, apart from the
\* set-password statement, which is executed only when a password is declared.
C33_NoAlterWithoutDifference ==
    UpdatedUnchangedUser =>
        /\ Of(last.log, "ALTER_ROLE") = {}
        /\ Of(last.log, "SET_PASSWORD") # {} => last.users[1].Password # ""

\* What holds instead: one ALTER USER statement is executed, without a clause;
\* the set-password statement follows exactly when a password is declared.
C33_AlterWithoutClause ==
    UpdatedUnchangedUser =>
        /\ Cardinality(Of(last.log, "ALTER_ROLE")) = 1
        /\ \A i \in Of(last.log, "ALTER_ROLE") : last.log[i].c = <<>> /\ last.log[i].ok
        /\ Of(last.log, "SET_PASSWORD") # {} <=> last.users[1].Password # ""

\* C34: after a successful Manage the direct memberships of every declared
\* user are its declared roles: the declared ones were granted, the live
\* ones that are not declared were revoked.
C34_ManageReconcilesMemberships ==
    (last.op = "Manage" /\ last.err = "") =>
        \A n \in 1..Len(last.users) :
            DirectGroups(cat, last.users[n].Name) = Range(last.users[n].Roles)

\* What holds instead: Manage grants and revokes no membership of a declared
\* user, so each has the memberships it had before.
C34_ManageKeepsMemberships ==
    last.op = "Manage" =>
        \A n \in 1..Len(last.users) :
            /\ RolesIn(last.log, "GRANT_ROLE", last.users[n].Name) = {}
            /\ RolesIn(last.log, "REVOKE_ROLE", last.users[n].Name) = {}
            /\ last.users[n].Name \in last.pre.roles =>
                  DirectGroups(cat, last.users[n].Name)
                      = DirectGroups(last.pre, last.users[n].Name)

\* The roles the operating principal is a member of at entry i of a log
\* through a membership GRANT of that log: granted before i and not revoked
\* in between.
ElevatedAt(log, i) ==
    { role \in AllRoles :
        \E j \in Elevations(log, "GRANT_ROLE", role) :
            /\ j < i /\ log[j].ok
            /\ \A n \in Elevations(log, "REVOKE_ROLE", role) : ~(j < n /\ n < i /\ log[n].ok) }

\* C35: while the ALTER DEFAULT PRIVILEGES statement of a rule executes, the
\* only membership the operating principal holds through elevation is the one
\* in that rule's acting role: the membership granted for an earlier rule
\* has been revoked before the next rule's statement runs.
C35_OneElevationAtATime ==
    last.op = "CreateDatabase" =>
        \A i \in Of(last.log, "ALTER_DEFAULT_PRIVILEGES") :
            ElevatedAt(last.log, i) \subseteq {last.log[i].a}

\* What holds instead: within each scoped connection every REVOKE comes after
\* the last ALTER DEFAULT PRIVILEGES statement.
C35_RevokedAfterLastRule ==
    last.op = "CreateDatabase" =>
        \A n \in 1..2 :
            \A i \in Segment(last.log, n), j \in Segment(last.log, n) :
                (last.log[i].k = "REVOKE_ROLE" /\ last.log[j].k = "ALTER_DEFAULT_PRIVILEGES")
                    => j < i

\* C36: a membership of the operating principal in a role the declaration
\* elevates to (its owner, its rules' acting roles) that was there before
\* CreateDatabase is still there afterwards, and no REVOKE of it is executed.
C36_ElevationKeepsMemberships ==
    last.op = "CreateDatabase" =>
        \A role \in ElevationRoles(last.dbs[1]) :
            <<AdminUser, role>> \in last.pre.member =>
                /\ <<AdminUser, role>> \in cat.member
                /\ Elevations(last.log, "REVOKE_ROLE", role) = {}

\* What holds instead: whenever the elevation code ran for a role the
\* principal was a member of (its membership check was made), the
\* membership was revoked.
C36_MembershipRevoked ==
    (last.op = "CreateDatabase" /\ last.err = "") =>
        \A role \in ElevationRoles(last.dbs[1]) :
            (/\ <<AdminUser, role>> \in last.pre.member
             /\ \E i \in Of(last.log, "Q_HAS_ROLE") : last.log[i].a = role) =>
                /\ Elevations(last.log, "REVOKE_ROLE", role) # {}
                /\ <<AdminUser, role>> \notin cat.member

\* Each of the three elevating functions does so: createDatabase (the
\* database was created), updateDatabaseOwner (the owner was altered) and
\* alterDefaultPrivileges, with the principal a member of ops before.
C36_InCreateDatabase ==
    /\ last.op = "CreateDatabase" /\ <<AdminUser, "ops">> \in last.pre.member
    /\ \E i \in Of(last.log, "CREATE_DATABASE"), j \in Elevations(last.log, "REVOKE_ROLE", "ops") :
          i < j /\ last.log[j].ok /\ Of(last.log, "ALTER_DEFAULT_PRIVILEGES") = {}

C36_InUpdateDatabaseOwner ==
    /\ last.op = "CreateDatabase" /\ <<AdminUser, "ops">> \in last.pre.member
    /\ \E i \in Of(last.log, "ALTER_DATABASE_OWNER"), j \in Elevations(last.log, "REVOKE_ROLE", "ops") :
          i < j /\ last.log[j].ok /\ Of(last.log, "ALTER_DEFAULT_PRIVILEGES") = {}

C36_InAlterDefaultPrivileges ==
    /\ last.op = "CreateDatabase" /\ <<AdminUser, "ops">> \in last.pre.member
    /\ last.dbs[1].Owner = ""
    /\ \E i \in Of(last.log, "ALTER_DEFAULT_PRIVILEGES"), j \in Elevations(last.log, "REVOKE_ROLE", "ops") :
          i < j /\ last.log[j].ok

\* The user holds every privilege the Grant asks for with grant option in catalog c.
HoldsAllWithOption(c, username, g) ==
    \A p \in GrantedPrivileges(DeclaredObject(g).class, g.Privileges) :
        [u |-> username, o |-> DeclaredObject(g), p |-> p] \in c.gopt

\* C37: after a successful GrantPermissions the user holds the privileges of
\* every Grant declared with with_grant on a concrete object with grant
\* option, whether or not it held them without it before.
C37_GrantOptionConferred ==
    (GrantedExisting /\ last.err = "") =>
        \A g \in Range(last.users[1].Grants) :
            (g.WithGrant /\ ~IsWildcard(g)) => HoldsAllWithOption(cat, last.users[1].Name, g)

\* What holds instead: the grant option is conferred when the Grant names a
\* database and the user did not hold all of its privileges before.
C37_GrantOptionWhenNotHeld ==
    (GrantedExisting /\ last.err = "") =>
        \A g \in Range(last.users[1].Grants) :
            (/\ g.WithGrant /\ ~IsWildcard(g) /\ g.Database # ""
             /\ ~HoldsAll(last.pre, last.users[1].Name, g)) =>
                HoldsAllWithOption(cat, last.users[1].Name, g)

\* The user held CONNECT on the database without grant option, the Grant
\* declares with_grant, and GrantPermissions returned success without a GRANT.
C37_HeldWithoutOption ==
    /\ GrantedExisting /\ last.err = ""
    /\ last.users[1].Grants = <<Grant("appdb", "", "", "", "", <<"CONNECT">>, TRUE)>>
    /\ HoldsAll(last.pre, "app", last.users[1].Grants[1])
    /\ ~HoldsAllWithOption(last.pre, "app", last.users[1].Grants[1])
    /\ Of(last.log, "GRANT") = {}
    /\ ~HoldsAllWithOption(cat, "app", last.users[1].Grants[1])

\* C38: for a user declared with a password, CreateUser executes no
\* statement that carries NOLOGIN on a present role that can log in,
\* whatever login option is declared.
C38_LoginNeverDisabled ==
    (/\ UpdatedUser
     /\ last.users[1].Password # ""
     /\ last.pre.opt[last.users[1].Name].Login) =>
        \A i \in Of(last.log, "ALTER_ROLE") : "NOLOGIN" \notin Range(last.log[i].c)

\* What holds instead: NOLOGIN is executed exactly when login is declared
\* false, and the set-password statement that follows enables login again.
C38_LoginDisabledThenRestored ==
    (/\ UpdatedUser
     /\ last.faults = {}
     /\ last.users[1].Password # ""
     /\ last.pre.opt[last.users[1].Name].Login) =>
        /\ \A i \in Of(last.log, "ALTER_ROLE") :
              "NOLOGIN" \in Range(last.log[i].c) <=> ~last.users[1].Options.Login
        /\ \E i \in Of(last.log, "ALTER_ROLE"), j \in Of(last.log, "SET_PASSWORD") : i < j
        /\ cat.opt[last.users[1].Name].Login

\* The set-password statement failed after NOLOGIN was executed: the role
\* that could log in is left unable to.
C38_LeftWithoutLogin ==
    /\ UpdatedUser
    /\ last.users[1].Password # ""
    /\ last.pre.opt[last.users[1].Name].Login
    /\ last.err = "SET_PASSWORD"
    /\ ~cat.opt[last.users[1].Name].Login

\* The last operation was GrantPermissions, of either engine, for a user
\* that has no row in the catalog.
GrantedAbsent ==
    /\ last.op \in {"GrantPermissions", "mysql.GrantPermissions"}
    /\ last.users[1].Name \notin last.pre.roles

\* C39: GrantPermissions for a user that does not exist looks the user up
\* and does nothing else: it opens no scoped connection, executes no
\* statement (no GRANT, no REVOKE), leaves the catalog as it was and returns
\* nil, whatever the driver would fail.
C39_AbsentUserSkipped ==
    GrantedAbsent =>
        /\ last.err = ""
        /\ Of(last.log, "OPEN") = {}
        /\ Statements(last.log) = {}
        /\ Of(last.log, "Q_USER_EXISTS") = {1} /\ Len(last.log) = 1
        /\ cat = last.pre

\* C39 witness: PostgreSQL GrantPermissions for the absent ghost, declared
\* with a grant and a role, the driver failing every GRANT: nil was returned.
C39_Witness ==
    /\ GrantedAbsent /\ last.op = "GrantPermissions"
    /\ last.users[1].Name = "ghost"
    /\ last.users[1].Grants # <<>> /\ last.users[1].Roles # <<>>
    /\ last.faults = {"GRANT"}
    /\ last.err = "" /\ cat = last.pre

\* The same for MySQL, on a server that has other accounts.
C39_MysqlWitness ==
    /\ GrantedAbsent /\ last.op = "mysql.GrantPermissions"
    /\ last.users[1].Grants # <<>>
    /\ last.pre.roles # {MysqlAdminUser}
    /\ last.err = "" /\ cat = last.pre

\* The last operation was GrantPermissions of one Grant without a privilege,
\* to a user that existed.
GrantedNothing ==
    /\ GrantedExisting
    /\ Len(last.users[1].Grants) = 1
    /\ last.users[1].Grants[1].Privileges = <<>>

\* C40: GrantPermissions of a Grant whose privilege list is empty returns
\* normally, with nil or an error value, and executes no GRANT statement
\* that has an empty privilege list.
C40_EmptyPrivilegesHandled ==
    GrantedNothing =>
        /\ last.err # "panic"
        /\ \A i \in Of(last.log, "GRANT") : last.log[i].c # <<>>

\* What holds instead: the call panics on privileges[0] in the check of a
\* concrete scope; for a wildcard, which has no check, the GRANT without a
\* privilege is sent and the server's error returned; only a Grant without
\* database and parameter is rejected before either.
C40_EmptyPrivilegesPanic ==
    GrantedNothing =>
        LET g == last.users[1].Grants[1] IN
        /\ (g.Database = "" /\ g.Parameter = "") => last.err = "invalid grant options"
        /\ (g.Database # "" /\ IsWildcard(g)) =>
              /\ last.err = "GRANT"
              /\ \E i \in Of(last.log, "GRANT") : last.log[i].c = <<>> /\ ~last.log[i].ok
        /\ (~IsWildcard(g) /\ ~(g.Database = "" /\ g.Parameter = "")) =>
              /\ last.err = "panic"
              /\ Of(last.log, "Q_HAS_PRIVILEGE") = {} /\ Of(last.log, "GRANT") = {}

\* The panic is reached for a Grant on a database, and the scoped connection
\* was opened before it.
C40_PanicOnDatabase ==
    /\ GrantedNothing
    /\ last.users[1].Grants[1] = Grant("appdb", "", "", "", "", <<>>, FALSE)
    /\ last.err = "panic"
    /\ Of(last.log, "OPEN") # {}

====
